---- MODULE Spec2Model ----
(***************************************************************************)
(* CookieBlock consent crawler: a model of                                 *)
(*   - the page-load state tracker of crawler/browser.py (SpecLoad),       *)
(*   - the CMP coordinator and its detectors (SpecVisit),                  *)
(*   - the crawl orchestrator of crawler/run_consent_crawl_uc.py (Spec).   *)
(* The three parts share no state; each specification holds the variables  *)
(* of the other parts at their initial value.                              *)
(***************************************************************************)
EXTENDS Integers, Sequences, FiniteSets, TLC

VARIABLES
    load_status,     \* Browser._load_status: url -> PageState, "absent" = no key
    last_event,      \* the event the callback handled last (history)
    root_links,      \* the links get_links finds on the reloaded root page (input)
    args_num_subpages, \* args.num_subpages of the command line (input)
    ot_calls,        \* the probes and fetches of the OneTrust scrape, in order (history)
    steps,           \* the calls run_domain made on the browser, in order (history)
    links,           \* run_domain: the same-domain links
    chosen,          \* run_domain: the chosen subpages not visited yet
    page,            \* what the visited site serves (input of one visit)
    cmp_pc,          \* position of the visit in run_domain / crawl_cmps
    presence,        \* crawl_cmps: results[crawl_type] of the presence checks
    scrapes,         \* the detectors whose scrape was invoked, in call order
    stored,          \* ConsentData rows written by store_consent_data
    cmp_ret,         \* what crawl_cmps returned or raised
    visit_ret,       \* what run_domain_with_timeout returned
    page_state,      \* run_domain: what the first load_page returned
    visit_exc,       \* the exception run_domain left by, "none" if it returned
    retry_list,      \* lines appended to ./collected_data/retry_list.txt by the visit
    num_browsers,    \* args.num_browsers
    timeout,         \* args.timeout
    now,             \* wall clock
    task,            \* per visit: state of its run_domain_with_timeout call
    vstart,          \* per visit: time its call started (0 = not started)
    vbrowser,        \* per visit: the Chrome instance run_domain created (0 = none)
    nbrowsers,       \* Chrome instances created by visits so far
    procs,           \* OS process table: name, create_time, status, visit, browser
    next_i,          \* index of the result loop of run_crawler
    nresults,        \* per visit: ConsentCrawlResult objects merged into the session
    retry,           \* lines appended to ./retry_list.txt, as visit indexes
    watcher,         \* state of the watcher process
    watcher_target,  \* the function the watcher process runs
    nav_pc,          \* position of the browser in load_page
    nav_url,         \* load_page: url after the trailing-slash step
    last_loaded_url, \* Browser.last_loaded_url
    nav_error,       \* load_page: error is set (driver.get raised another exception)
    tries,           \* load_page: tries of the loop of lines 255-264
    nav_ret,         \* what load_page returned
    nav_line,        \* the line of the return statement load_page left by
    fr_top,          \* execute_in_IFrames: whether the probe finds something in the top frame (input)
    fr_iframes,      \* execute_in_IFrames: what each iframe does to the probe (input)
    fr_timeout,      \* execute_in_IFrames: the timeout argument (input)
    fr_pc,           \* execute_in_IFrames: position
    fr_i,            \* execute_in_IFrames: index of the next iframe of the loop
    focus,           \* the frame the driver is switched to, 0 = default content
    fr_probes,       \* the calls of command, in order (history)
    fr_ret,          \* what execute_in_IFrames returned
    exit_pc,         \* Chrome.__exit__: position
    use_temp,        \* Chrome.use_temp (input)
    browser_proc,    \* the browser process of driver.browser_pid: "running" or "stopped"
    quit_failed,     \* whether driver.quit() raised in Browser.__exit__
    sleeps,          \* passes of the wait loop of Chrome.__exit__
    temp_dir,        \* Chrome._temp_dir, the profile directory: "present" or "removed"
    temp_download_directory, \* Browser.temp_download_directory: "present" or "removed"
    js_contents,     \* CookiebotCMP.scrape: the category arrays of the cc.js body
    cc_ret,          \* what the category loop of CookiebotCMP.scrape left behind
    onetrust_script, \* Variant B: the script text behind the match of `, Groups: [`
    scan_i,          \* Variant B: i of the bracket scan (1 = first character)
    open_brackets,   \* Variant B: open_brackets of the bracket scan
    in_quotes,       \* Variant B: in_quotes of the bracket scan
    group_string     \* Variant B: the text cut out behind the match, "" = not yet

loadVars == <<load_status, last_event>>
tailVars == <<root_links, args_num_subpages, steps, links, chosen, ot_calls>>
visitVars == <<page, cmp_pc, presence, scrapes, stored, cmp_ret, visit_ret, page_state,
              visit_exc, retry_list, tailVars>>
crawlVars == <<num_browsers, timeout, now, task, vstart, vbrowser, nbrowsers, procs,
               next_i, nresults, retry, watcher, watcher_target>>
navVars == <<nav_pc, nav_url, last_loaded_url, nav_error, tries, nav_ret, nav_line>>
parseVars == <<js_contents, cc_ret, onetrust_script, scan_i, open_brackets, in_quotes,
               group_string>>
exitVars == <<exit_pc, use_temp, browser_proc, quit_failed, sleeps, temp_dir,
              temp_download_directory>>
frameVars == <<fr_top, fr_iframes, fr_timeout, fr_pc, fr_i, focus, fr_probes, fr_ret>>
browserVars == <<frameVars, exitVars>>
vars == <<browserVars, load_status, last_event, root_links, args_num_subpages, steps, links, chosen,
          ot_calls, page, cmp_pc, presence, scrapes, stored,
          cmp_ret, visit_ret, page_state, visit_exc, retry_list, num_browsers, timeout, now, task, vstart, vbrowser,
          nbrowsers, procs, next_i, nresults, retry, watcher, watcher_target, nav_pc, nav_url,
          last_loaded_url, nav_error, tries, nav_ret, nav_line, js_contents, cc_ret,
          onetrust_script, scan_i, open_brackets, in_quotes, group_string>>

(***************************************************************************)
(* Page-load state tracker (crawler/browser.py)                            *)
(***************************************************************************)

Urls == {"https://a/", "https://b/"}

PageStates ==
    {"OK", "REDIRECT", "TIMEOUT", "DNS_ERROR", "TCP_ERROR", "HTTP_ERROR",
     "BAD_CONTENT_TYPE", "UNKNOWN_ERROR"}

Absent == "absent"

\* HTTP statuses delivered with an event; 0 stands for "no HTTP response".
Statuses == {0, 200, 301, 404, 500}

ErrorReasons == {"none", "NameNotResolved", "TimedOut", "ConnectionRefused"}

ContentTypes == {"text/html", "application/octet-stream"}

Methods == {"Network.responseReceived", "Network.loadingFailed"}

\* The Location headers: absolute URLs, and the relative reference "/".
Locations == Urls \cup {"/"}

\* URL.from_text(location) / url.click(loc), lines 922-924: an absolute location as it
\* is, a relative one resolved against the request URL. The URLs of the model are the
\* roots of their hosts, so "/" resolves to the request URL.
click(url, loc) == IF loc \in Urls THEN loc ELSE url

\* The network events of the browser: {url, status, responseHeaders, errorReason?}.
\* A failed load carries an error reason and no HTTP response.
Events ==
    { e \in [method : Methods, url : Urls, status : Statuses,
             location : {"none"} \cup Locations, error_reason : ErrorReasons,
             content_type : ContentTypes] :
        /\ (e.error_reason # "none") <=> (e.status = 0)
        /\ (e.error_reason # "none") <=> (e.method = "Network.loadingFailed")
        /\ (e.location # "none") => (e.status = 301) }

\* Chrome.__enter__ registers one listener, for "Network.responseReceived".
cdp_listeners == {"Network.responseReceived"}

NoEvent == [method |-> "none"]

EmptyLoadStatus == [u \in Urls |-> Absent]

\* Chrome._handle_cdp_response_received: the listener Chrome.__enter__ registers for
\* "Network.responseReceived". Two independent ifs: 404 and 2xx write, nothing else does.
handle_cdp_response_received(ls, data) ==
    IF data.method = "Network.responseReceived"
    THEN LET url == data.url
             http_status == data.status
             ls1 == IF http_status = 404
                    THEN [ls EXCEPT ![url] = "HTTP_ERROR"]
                    ELSE ls
         IN  IF 200 <= http_status /\ http_status < 300
             THEN [ls1 EXCEPT ![url] = "OK"]
             ELSE ls1
    ELSE ls

LoadInit ==
    /\ load_status = EmptyLoadStatus
    /\ last_event = NoEvent

\* The browser delivers one event to the registered listener.
CdpEvent(data) ==
    /\ load_status' = handle_cdp_response_received(load_status, data)
    /\ last_event' = data

NetworkEvent == \E data \in Events : data.method \in cdp_listeners /\ CdpEvent(data)

(***************************************************************************)
(* Navigation: Browser.load_page (crawler/browser.py) next to the callbacks *)
(* that fill _load_status from another thread.                             *)
(***************************************************************************)

\* Chrome._process_intercepted_request: the state map and last_loaded_url after the
\* callback handled data. It only looks at the page that is being loaded.
process_intercepted_request(ls, llu, data) ==
    IF data.url = llu
    THEN IF data.error_reason # "none"
         THEN [ls |-> [ls EXCEPT ![data.url] =
                          IF data.error_reason = "NameNotResolved" THEN "DNS_ERROR"
                          ELSE IF data.error_reason = "TimedOut" THEN "TIMEOUT"
                          ELSE "TCP_ERROR"],
               llu |-> llu]
         ELSE IF 300 <= data.status /\ data.status < 400 /\ data.location # "none"
              THEN [ls |-> [ls EXCEPT ![data.url] = "REDIRECT"], llu |-> click(data.url, data.location)]
              ELSE IF data.status >= 400
                   THEN [ls |-> [ls EXCEPT ![data.url] = "HTTP_ERROR"], llu |-> llu]
                   ELSE [ls |-> [ls EXCEPT ![data.url] = "OK"], llu |-> llu]
    ELSE [ls |-> ls, llu |-> llu]

\* What driver.get can do (lines 217-229).
GetOutcomes == {"loaded", "TimeoutException", "ERR_NAME_NOT_RESOLVED", "WebDriverException"}

NavInit ==
    /\ nav_pc = "idle"
    /\ nav_url = "none"
    /\ last_loaded_url = "none"
    /\ nav_error = FALSE
    /\ tries = 0
    /\ nav_ret = "none"
    /\ nav_line = 0

\* load_page leaves by the return statement of the given line.
NavReturn(state, line) ==
    /\ nav_pc' = "idle"
    /\ nav_ret' = state
    /\ nav_line' = line

\* A load_page that forgets the entry of the URL it is about to load.
load_page_writes_clearing(ls, url) == [ls EXCEPT ![url] = Absent]

\* load_page, lines 204-276: the state map after the call started. No statement of
\* load_page assigns, deletes or clears _load_status; the entries of earlier loads
\* stay.
load_page_writes(ls, url) == ls

\* load_page, lines 205-229: entry and driver.get.
LoadPageGet(url, outcome) ==
    /\ nav_pc = "idle"
    /\ nav_url' = url
    /\ last_loaded_url' = url
    /\ tries' = 0
    /\ CASE outcome = "TimeoutException" ->
                NavReturn("TIMEOUT", 223) /\ nav_error' = FALSE
         [] outcome = "ERR_NAME_NOT_RESOLVED" ->
                NavReturn("DNS_ERROR", 226) /\ nav_error' = FALSE
         [] OTHER ->
                /\ nav_pc' = "sleep"
                /\ nav_ret' = "none"
                /\ nav_line' = 0
                /\ nav_error' = (outcome = "WebDriverException")
    /\ load_status' = load_page_writes(load_status, url)

\* load_page, lines 231-241: after the settle delay, the first lookup.
LoadPageFirstLookup ==
    /\ nav_pc = "sleep"
    /\ IF load_status[nav_url] # Absent
       THEN NavReturn(load_status[nav_url], 239)
       ELSE nav_pc' = "escape" /\ UNCHANGED <<nav_ret, nav_line>>
    /\ UNCHANGED <<load_status, nav_url, last_loaded_url, nav_error, tries>>

\* load_page, lines 243-255 and 268-276: escape is pressed, then the second lookup.
LoadPageRecheck ==
    /\ nav_pc = "escape"
    /\ IF load_status[nav_url] # Absent
       THEN nav_pc' = "tries" /\ tries' = 3 /\ UNCHANGED <<nav_ret, nav_line>>
       ELSE /\ IF nav_error
               THEN NavReturn("UNKNOWN_ERROR", 273)
               ELSE NavReturn("OK", 276)
            /\ UNCHANGED tries
    /\ UNCHANGED <<load_status, nav_url, last_loaded_url, nav_error>>

\* load_page, lines 256-267: one round of the while loop, or its end.
LoadPageTry ==
    /\ nav_pc = "tries"
    /\ IF tries > 0
       THEN LET status == load_status[nav_url]
            IN  IF status = "REDIRECT"
                THEN IF load_status[last_loaded_url] # Absent
                     THEN NavReturn(load_status[last_loaded_url], 260) /\ UNCHANGED tries
                     ELSE tries' = tries - 1 /\ UNCHANGED <<nav_pc, nav_ret, nav_line>>
                ELSE NavReturn(status, 261) /\ UNCHANGED tries
       ELSE NavReturn("UNKNOWN_ERROR", 267) /\ UNCHANGED tries
    /\ UNCHANGED <<load_status, nav_url, last_loaded_url, nav_error>>

\* The listener thread handles a Network.responseReceived event, at any time.
NavCdpEvent(data) ==
    /\ data.method \in cdp_listeners
    /\ load_status' = handle_cdp_response_received(load_status, data)
    /\ UNCHANGED navVars

\* _process_intercepted_request handles an event, at any time. Chrome.__enter__
\* does not register this callback, so as written it never runs; the model keeps it as
\* a second source of events, so that the states it alone can store (REDIRECT, the
\* transport errors) and the redirect handling of load_page are covered.
NavInterceptedRequest(data) ==
    /\ LET r == process_intercepted_request(load_status, last_loaded_url, data)
       IN  /\ load_status' = r.ls
           /\ last_loaded_url' = r.llu
    /\ UNCHANGED <<nav_pc, nav_url, nav_error, tries, nav_ret, nav_line>>

(***************************************************************************)
(* One visit: crawl_cmps and the detectors (crawler/browser.py,            *)
(* crawler/cmps/onetrust.py, crawler/cmps/cookiebot.py) and the end of     *)
(* run_domain / run_domain_with_timeout.                                   *)
(***************************************************************************)

MaxRulesets == 2      \* OneTrust: ruleset documents listed by the index json
MaxOtCookies == 2     \* OneTrust: cookies in one ruleset document
MaxCbCookies == 1     \* Cookiebot: entries of one category array

\* cookiebot.py name_to_cat, in dict order
name_to_cat ==
    <<"Necessary", "Preference", "Statistics", "Advertising", "Unclassified">>

\* The detectors in the opposite order.
presence_check_methods_cookiebot_first == <<"COOKIEBOT", "ONETRUST">>

\* browser.py presence_check_methods / crawl_methods, in dict order
presence_check_methods == <<"ONETRUST", "COOKIEBOT">>

\* One per-language ruleset document of OneTrust Variant A:
\*   fetch_failed  get_content state is not OK
\*   bad_json      json.loads raises JSONDecodeError
\*   missing_attr  DomainData / Language / Culture / Groups is missing
\*   key_error     a cookie lacks Name or Host after n cookies were appended
\*   ok            the document holds n cookies
RulesetDocs ==
    {[kind |-> k, n |-> 0] : k \in {"fetch_failed", "bad_json", "missing_attr"}}
    \cup {[kind |-> "key_error", n |-> c] : c \in 0..(MaxOtCookies - 1)}
    \cup {[kind |-> "ok", n |-> c] : c \in 0..MaxOtCookies}

RECURSIVE SeqsUpTo(_, _)
SeqsUpTo(S, n) ==
    IF n = 0 THEN {<<>>}
    ELSE LET shorter == SeqsUpTo(S, n - 1)
         IN  shorter \cup {Append(q, x) : q \in {r \in shorter : Len(r) = n - 1}, x \in S}

\* One category array of cc.js: missing (no match), ok (n entries), bad (n entries
\* stored, then json.loads or an index of the entry raises).
CategoryTables ==
    {[kind |-> "missing", n |-> 0]}
    \cup {[kind |-> k, n |-> c] : k \in {"ok", "bad"}, c \in 0..MaxCbCookies}

NoOnetrust ==
    [ot_ddid |-> FALSE, ot_index |-> "ok", ot_rulesets |-> <<>>,
     ot_jsurl |-> FALSE, ot_script |-> "no_groups"]

NoCookiebot ==
    [cb_has_crawl |-> FALSE, cb_cbid |-> "none", cb_fetch |-> "failed",
     cb_js |-> "empty", cb_tables |-> [i \in 1..Len(name_to_cat) |-> [kind |-> "missing", n |-> 0]]]

\* What a site can serve to the OneTrust detector.
OnetrustInputs ==
    {[ot_ddid |-> TRUE, ot_index |-> x, ot_rulesets |-> <<>>,
      ot_jsurl |-> j, ot_script |-> IF j THEN "groups_found" ELSE "no_groups"] :
        x \in {"fetch_failed", "bad_json", "no_ruleset", "key_error", "no_ids"},
        j \in BOOLEAN}
    \cup {[ot_ddid |-> TRUE, ot_index |-> "ok", ot_rulesets |-> rs,
           ot_jsurl |-> j, ot_script |-> IF j THEN "groups_found" ELSE "no_groups"] :
        rs \in SeqsUpTo(RulesetDocs, MaxRulesets) \ {<<>>}, j \in BOOLEAN}
    \cup {[ot_ddid |-> FALSE, ot_index |-> "ok", ot_rulesets |-> <<>>,
           ot_jsurl |-> j, ot_script |-> sc] :
        j \in BOOLEAN, sc \in {"fetch_failed", "groups_found", "no_groups"}}

\* What a site can serve to the Cookiebot detector.
CookiebotInputs ==
    {[cb_has_crawl |-> h, cb_cbid |-> c, cb_fetch |-> f, cb_js |-> j,
      cb_tables |-> NoCookiebot.cb_tables] :
        h \in BOOLEAN, c \in {"v1", "v2", "v3", "none"}, f \in {"ok", "failed"},
        j \in {"out_of_region", "invalid_domain", "empty"}}
    \cup {[cb_has_crawl |-> TRUE, cb_cbid |-> "v1", cb_fetch |-> "ok", cb_js |-> "tables",
           cb_tables |-> t] : t \in [1..Len(name_to_cat) -> CategoryTables]}

Merge(f, g) == [k \in (DOMAIN f) \cup (DOMAIN g) |-> IF k \in DOMAIN f THEN f[k] ELSE g[k]]

\* What the presence patterns find in the page source: OneTrust, Cookiebot, and the
\* Termly pattern https://app.termly.io/ (termly.py, lines 18-25).
Presence(ot, cb, tm) == [ot_present |-> ot, cb_present |-> cb, tm_present |-> tm]

\* The detector that is not consulted gets a fixed input. Termly is referenced on
\* pages without the other two only.
Pages ==
    {Merge(Presence(TRUE, cb, FALSE), Merge(o, NoCookiebot)) :
        cb \in BOOLEAN, o \in OnetrustInputs}
    \cup {Merge(Presence(FALSE, TRUE, FALSE), Merge(NoOnetrust, c)) : c \in CookiebotInputs}
    \cup {Merge(Presence(FALSE, FALSE, tm), Merge(NoOnetrust, NoCookiebot)) :
        tm \in BOOLEAN}

Return(state, data) == [kind |-> "return", state |-> state, data |-> data, exc |-> "none"]
Raise(exc) == [kind |-> "raise", state |-> "none", data |-> <<>>, exc |-> exc]

OtRecords(rs, n) == [k \in 1..n |-> [src |-> "onetrust", part |-> rs, idx |-> k]]
CbRecords(cat, n) == [k \in 1..n |-> [src |-> "cookiebot", part |-> cat, idx |-> k]]

\* OnetrustCMP._variantA_try_retrieve_ruleset_id: (ids, state) or an exception;
\* json.loads of the index stands outside the try block.
variantA_try_retrieve_ruleset_id(pg) ==
    CASE pg.ot_index = "fetch_failed" -> Return("LIBRARY_ERROR", <<>>)
      [] pg.ot_index = "bad_json"     -> Raise("JSONDecodeError")
      [] pg.ot_index = "no_ruleset"   -> Return("PARSE_ERROR", <<>>)
      [] pg.ot_index = "key_error"    -> Return("PARSE_ERROR", <<>>)
      [] pg.ot_index = "no_ids"       -> Return("PARSE_ERROR", <<>>)
      [] OTHER -> Return("SUCCESS", [i \in 1..Len(pg.ot_rulesets) |-> i])

\* One probe or fetch of the OneTrust scrape; n is the ruleset fetched, 0 otherwise.
Call(name, n) == [call |-> name, n |-> n]

\* The for loop of _variantA_get_and_parse_json from ruleset i on: the cookies appended
\* to data and the rulesets fetched. A document that fails before its first cookie is
\* skipped; the loop breaks after the first document that left cookie_count > 0.
RECURSIVE variantA_loop(_, _, _, _)
variantA_loop(docs, i, data, fetched) ==
    IF i > Len(docs) THEN [data |-> data, fetched |-> fetched]
    ELSE LET d == docs[i]
             data1 == IF d.kind \in {"ok", "key_error"}
                      THEN data \o OtRecords(i, d.n)
                      ELSE data
             fetched1 == Append(fetched, Call("get_content", i))
         IN  IF Len(data1) > 0 THEN [data |-> data1, fetched |-> fetched1]
             ELSE variantA_loop(docs, i + 1, data1, fetched1)

\* What _variantA_get_and_parse_json hands back as its 4th element when it found
\* cookies (line 718).
variantA_success_data(data) == <<>>

\* The crawl state _variantA_get_and_parse_json returns for cookie_count (lines
\* 706-719); a document that lacked a key leaves no other trace than its cookies.
variantA_state(cookie_count) == IF cookie_count = 0 THEN "NO_COOKIES" ELSE "SUCCESS"

\* OnetrustCMP._variantA_get_and_parse_json: (cookie_count, state, report, data)
variantA_get_and_parse_json(pg) ==
    LET r == variantA_loop(pg.ot_rulesets, 1, <<>>, <<>>)
        cookie_count == Len(r.data)
    IN  [cookie_count |-> cookie_count, state |-> variantA_state(cookie_count),
         data |-> IF cookie_count = 0 THEN r.data ELSE variantA_success_data(r.data),
         collected |-> r.data, fetched |-> r.fetched]

\* A Variant B that evaluates the Groups array it found.
variantB_parse_script_for_object_evaluating(pg) ==
    CASE pg.ot_script = "fetch_failed" -> "LIBRARY_ERROR"
      [] pg.ot_script = "groups_found" -> "SUCCESS"
      [] OTHER -> "PARSE_ERROR"

\* OnetrustCMP._variantB_parse_script_for_object: (data_dict, state); data_dict is
\* None on every path.
variantB_parse_script_for_object(pg) ==
    CASE pg.ot_script = "fetch_failed" -> "LIBRARY_ERROR"
      [] pg.ot_script = "groups_found" -> "LIBRARY_ERROR"
      [] OTHER -> "PARSE_ERROR"

\* OnetrustCMP.scrape, lines 231-287: Variant B.
onetrust_variantB(pg) ==
    LET probe == <<Call("_variantB_try_retrieve_jsurl", 0)>>
    IN  IF ~pg.ot_jsurl
        THEN [calls |-> probe, ret |-> Return("CMP_NOT_FOUND", <<>>)]
        ELSE [calls |-> Append(probe, Call("_variantB_parse_script_for_object", 0)),
              ret |-> Return(variantB_parse_script_for_object(pg), <<>>)]

\* A scrape that falls back to Variant B whenever Variant A did not succeed.
onetrust_variants_falling_back(pg) ==
    LET probe == <<Call("_variantA_try_retrieve_ddid", 0)>>
        index == Append(probe, Call("_variantA_try_retrieve_ruleset_id", 0))
        b == onetrust_variantB(pg)
    IN  IF pg.ot_ddid
        THEN LET ids == variantA_try_retrieve_ruleset_id(pg)
             IN  IF ids.kind = "raise" THEN [calls |-> index, ret |-> ids]
                 ELSE IF ids.state # "SUCCESS"
                 THEN [calls |-> index \o b.calls, ret |-> b.ret]
                 ELSE LET r == variantA_get_and_parse_json(pg)
                      IN  IF r.state # "SUCCESS"
                          THEN [calls |-> index \o r.fetched \o b.calls, ret |-> b.ret]
                          ELSE [calls |-> index \o r.fetched,
                                ret |-> Return("SUCCESS", r.data)]
        ELSE [calls |-> probe \o b.calls, ret |-> b.ret]

\* OnetrustCMP.scrape, lines 177-287: the probes and fetches it makes, and what it
\* returns or raises.
onetrust_variants(pg) ==
    LET probe == <<Call("_variantA_try_retrieve_ddid", 0)>>
        index == Append(probe, Call("_variantA_try_retrieve_ruleset_id", 0))
        b == onetrust_variantB(pg)
    IN  IF pg.ot_ddid
        THEN LET ids == variantA_try_retrieve_ruleset_id(pg)
             IN  IF ids.kind = "raise" THEN [calls |-> index, ret |-> ids]
                 ELSE IF ids.state # "SUCCESS"
                 THEN [calls |-> index, ret |-> Return(ids.state, <<>>)]
                 ELSE LET r == variantA_get_and_parse_json(pg)
                      IN  [calls |-> index \o r.fetched,
                           ret |-> IF r.state # "SUCCESS" THEN Return(r.state, <<>>)
                                   ELSE Return("SUCCESS", r.data)]
        ELSE [calls |-> probe \o b.calls, ret |-> b.ret]

\* OnetrustCMP.scrape: (crawl_state, report, consent_data) or an exception
onetrust_scrape(pg) == onetrust_variants(pg).ret

\* The category loop of CookiebotCMP.scrape from category i on, with the rows stored
\* so far: [state, stored]. Every entry is stored as soon as it is read.
RECURSIVE cookiebot_loop(_, _, _)
cookiebot_loop(tables, i, rows) ==
    IF i > Len(tables)
    THEN [state |-> IF Len(rows) = 0 THEN "NO_COOKIES" ELSE "SUCCESS", stored |-> rows]
    ELSE LET t == tables[i]
             rows1 == IF t.kind = "missing" THEN rows ELSE rows \o CbRecords(i, t.n)
         IN  IF t.kind = "bad"
             THEN [state |-> "MALFORM_RESP", stored |-> rows1]
             ELSE cookiebot_loop(tables, i + 1, rows1)

\* CookiebotCMP.scrape: a 2-tuple (crawl_state, report), or an exception; stored are
\* the rows it wrote with store_consent_data.
\*   line 89: webdriver.crawl is read; the browser classes define no such attribute,
\*            so as written the scrape raises here. cb_has_crawl keeps both outcomes.
\*   line 94: the result of _try_retrieve_cbid_all_variants is unpacked; None cannot be
\*            unpacked, and variant 3 reads group 2 of a pattern with one group
cookiebot_scrape(pg) ==
    LET R(st, rows) == [kind |-> "return", state |-> st, stored |-> rows, exc |-> "none"]
        X(exc) == [kind |-> "raise", state |-> "none", stored |-> <<>>, exc |-> exc]
    IN  CASE ~pg.cb_has_crawl -> X("AttributeError")
          [] pg.cb_cbid = "none" -> X("TypeError")
          [] pg.cb_cbid = "v3" -> X("IndexError")
          [] pg.cb_fetch # "ok" -> R("LIBRARY_ERROR", <<>>)
          [] pg.cb_js = "out_of_region" -> R("REGION_BLOCK", <<>>)
          [] pg.cb_js = "invalid_domain" -> R("LIBRARY_ERROR", <<>>)
          [] pg.cb_js = "empty" -> R("MALFORM_RESP", <<>>)
          [] OTHER -> LET r == cookiebot_loop(pg.cb_tables, 1, <<>>)
                      IN  R(r.state, r.stored)

NoRet == [kind |-> "none"]

CmpReturn(type, state, data) ==
    [kind |-> "return", cmp_type |-> type, crawl_state |-> state, consent_data |-> data,
     exc |-> "none"]
CmpRaise(exc) ==
    [kind |-> "raise", cmp_type |-> "none", crawl_state |-> "none", consent_data |-> <<>>,
     exc |-> exc]

VisitInit ==
    /\ page \in Pages
    /\ cmp_pc = "run_domain"
    /\ page_state = "none"
    /\ visit_exc = "none"
    /\ retry_list = <<>>
    /\ presence = <<>>
    /\ scrapes = <<>>
    /\ stored = <<>>
    /\ cmp_ret = NoRet
    /\ visit_ret = NoRet
    /\ steps = <<>>
    /\ links = <<>>
    /\ chosen = <<>>
    /\ ot_calls = <<>>

\* crawl_cmps, lines 454-455: AbstractCMP.__init__ declares browser_id without a default
\* and neither detector passes it, so constructing a detector raises TypeError.
CrawlCmpsCtorRaises ==
    /\ cmp_pc = "start"
    /\ cmp_pc' = "cmp_done"
    /\ cmp_ret' = CmpRaise("TypeError")
    /\ UNCHANGED <<page, presence, scrapes, stored, visit_ret, page_state, visit_exc, retry_list,
                   tailVars>>

\* The presence check of one detector on the page.
check_presence(pg, crawl_type) ==
    IF crawl_type = "ONETRUST" THEN pg.ot_present ELSE pg.cb_present

\* crawl_cmps, lines 458-475: every presence check runs before any scrape. As written
\* this point is not reached (see CrawlCmpsCtorRaises); the model follows crawl_cmps on
\* with the detectors at hand as well, so that the code behind the constructors is
\* covered.
CrawlCmpsPresence ==
    /\ cmp_pc = "start"
    /\ cmp_pc' = "checked"
    /\ presence' = [i \in 1..Len(presence_check_methods) |->
                        check_presence(page, presence_check_methods[i])]
    /\ UNCHANGED <<page, scrapes, stored, cmp_ret, visit_ret, page_state, visit_exc, retry_list,
                   tailVars>>

\* The first detector, in the order of results, whose presence check was positive.
FirstFound(res) ==
    LET found == {i \in 1..Len(res) : res[i]}
    IN  IF found = {} THEN 0 ELSE CHOOSE i \in found : \A j \in found : i <= j

\* crawl_cmps, lines 477-503: scrape with the first detector found and return.
\* The scrape result is unpacked into three names; Cookiebot returns two.
CrawlCmpsScrape ==
    /\ cmp_pc = "checked"
    /\ cmp_pc' = "cmp_done"
    /\ LET i == FirstFound(presence)
       IN  IF i = 0
           THEN /\ cmp_ret' = CmpReturn("FAILED", "CMP_NOT_FOUND", <<>>)
                /\ UNCHANGED <<scrapes, stored, ot_calls>>
           ELSE LET crawl_type == presence_check_methods[i]
                IN  /\ scrapes' = Append(scrapes, crawl_type)
                    /\ IF crawl_type = "ONETRUST"
                       THEN LET r == onetrust_scrape(page)
                            IN  /\ cmp_ret' = IF r.kind = "raise" THEN CmpRaise(r.exc)
                                              ELSE CmpReturn(crawl_type, r.state, r.data)
                                /\ ot_calls' = onetrust_variants(page).calls
                                /\ UNCHANGED stored
                       ELSE LET r == cookiebot_scrape(page)
                            IN  /\ stored' = stored \o r.stored
                                /\ cmp_ret' = IF r.kind = "raise" THEN CmpRaise(r.exc)
                                              ELSE CmpRaise("ValueError")
                                /\ UNCHANGED ot_calls
    /\ UNCHANGED <<page, presence, visit_ret, page_state, visit_exc, retry_list, root_links,
                   args_num_subpages, steps, links, chosen>>

\* A report: a literal text, followed by the site URL or by str(e) of an exception.
Report(text, url, exc) == [text |-> text, site_url |-> url, str_e |-> exc]

\* crawl_cmps, lines 485-503: the report of the result is the message of the scrape, or
\* the fixed sentence when no detector was found.
cmp_report(r) ==
    IF r.cmp_type = "FAILED"
    THEN Report("No known Consent Management Platform found on the given URL.",
                FALSE, "none")
    ELSE Report("message of the scrape", FALSE, "none")

VisitReturn(type, state, data, report, cookies) ==
    [kind |-> "return", cmp_type |-> type, crawl_state |-> state, consent_data |-> data,
     report |-> report, cookies |-> cookies]

\* run_domain_with_timeout, lines 221-227: the exceptions of the first except clause.
RetryExceptions ==
    {"TimeoutError", "WebDriverException", "urllib3.TimeoutError", "MaxRetryError",
     "TimeoutExpired"}

\* run_domain_with_timeout, lines 221-264: every exception of the visit becomes a
\* FAILED / LIBRARY_ERROR result with no records. The first clause appends the URL to
\* ./collected_data/retry_list.txt and reports a fixed text with the URL; the second
\* reports str(e).
WorkerBoundary(exc) ==
    /\ visit_exc' = exc
    /\ IF exc \in RetryExceptions
       THEN /\ retry_list' = Append(retry_list, "site_url")
            /\ visit_ret' = VisitReturn("FAILED", "LIBRARY_ERROR", <<>>,
                                        Report("Failure: TimeoutError: ", TRUE, "none"), <<>>)
       ELSE /\ retry_list' = retry_list
            /\ visit_ret' = VisitReturn("FAILED", "LIBRARY_ERROR", <<>>,
                                        Report("Failure: ", FALSE, exc), <<>>)

\* A visit that hands back a library error instead of what crawl_cmps returned.
WorkerReturns_library_error(cookies) ==
    /\ visit_ret' = VisitReturn("FAILED", "LIBRARY_ERROR", <<>>,
                                Report("Failure: ", FALSE, "none"), <<>>)
    /\ UNCHANGED <<visit_exc, retry_list>>

\* run_domain returned the result of crawl_cmps with a list of cookies (lines 159, 205).
WorkerReturns(cookies) ==
    /\ visit_ret' = VisitReturn(cmp_ret.cmp_type, cmp_ret.crawl_state,
                                cmp_ret.consent_data, cmp_report(cmp_ret), cookies)
    /\ UNCHANGED <<visit_exc, retry_list>>

\* The exceptions a lost browser session raises in a call on the driver.
SessionExceptions == {"WebDriverException", "MaxRetryError"}

\* What the first load_page of the visit is seen to return.
LoadResults == {"OK", "TIMEOUT", "DNS_ERROR", "HTTP_ERROR"}

\* visit.site_url with its protocol, the root page of the visit.
RootUrl == "https://site.example"

\* The targets a link of the root page can have, after get_links made them absolute.
LinkUrls == {"https://site.example/a", "https://www.site.example/b", "https://other.example/c"}

\* Whether a link leads to the registrable domain (domain plus public suffix) of the
\* site. The function is imported from crawler.utils and not defined there.
is_on_same_domain(link, url) ==
    LET registrable(u) ==
            CASE u \in {"https://site.example", "https://site.example/a",
                        "https://www.site.example/b"} -> "site.example"
              [] OTHER -> "other.example"
    IN  registrable(link) = registrable(url)

\* run_domain, line 74: the default of the parameter num_subpages; it is 10 as well
\* for --num-subpages (line 365).
DefaultSubpages == 10

\* run_domain_with_timeout, line 220: run_domain is called with five arguments, so
\* num_subpages has its default whatever args.num_subpages is.
num_subpages == DefaultSubpages

\* One call of run_domain on its browser.
Step(op, url) == [op |-> op, url |-> url]

\* run_domain, lines 79-80: a URL without a host raises RuntimeError.
RunDomainInvalidUrl ==
    /\ cmp_pc = "run_domain"
    /\ cmp_pc' = "visit_done"
    /\ WorkerBoundary("RuntimeError")
    /\ UNCHANGED <<page, presence, scrapes, stored, cmp_ret, page_state, tailVars>>

\* run_domain, lines 110-121: start Chrome and load the page; load_page returns the
\* page state, also for a timeout or a DNS failure, or the session is lost.
RunDomainLoadPage ==
    /\ cmp_pc = "run_domain"
    /\ steps' = Append(steps, Step("load_page", RootUrl))
    /\ \/ \E exc \in SessionExceptions :
            /\ cmp_pc' = "visit_done"
            /\ WorkerBoundary(exc)
            /\ UNCHANGED page_state
       \/ \E ps \in LoadResults :
            /\ cmp_pc' = "loaded"
            /\ page_state' = ps
            /\ UNCHANGED <<visit_ret, visit_exc, retry_list>>
    /\ UNCHANGED <<page, presence, scrapes, stored, cmp_ret, root_links, args_num_subpages,
                   links, chosen, ot_calls>>

\* run_domain, line 123: the list names PageState.WRONG_URL, which the enumeration
\* does not have, so building it raises AttributeError whatever the page state.
RunDomainWrongUrl ==
    /\ cmp_pc = "loaded"
    /\ cmp_pc' = "visit_done"
    /\ WorkerBoundary("AttributeError")
    /\ UNCHANGED <<page, presence, scrapes, stored, cmp_ret, page_state, tailVars>>

\* run_domain, lines 123-142: the page state is only logged; bot mitigation, then
\* crawl_cmps. As written this point is not reached (see RunDomainWrongUrl); the model
\* follows run_domain on as well, so that the code behind line 123 is covered.
RunDomainBotMitigation ==
    /\ cmp_pc = "loaded"
    /\ cmp_pc' = "start"
    /\ steps' = steps \o <<Step("bot_mitigation", RootUrl), Step("crawl_cmps", RootUrl)>>
    /\ UNCHANGED <<page, presence, scrapes, stored, cmp_ret, visit_ret, page_state,
                   visit_exc, retry_list, root_links, args_num_subpages, links, chosen, ot_calls>>

\* Browser.collect_cookies (browser.py, from line 544): the cookies the extension has
\* recorded, none or some.
CollectedCookies == {<<>>, <<"cookie">>}

\* An abort path that hands on what collect_cookies returned.
abort_cookies_collected(collected) == collected

\* run_domain, lines 147 and 159: the value of collect_cookies is dropped and the third
\* element of the returned tuple is the literal [].
abort_cookies(collected) == <<>>

\* run_domain, lines 146-159: the abort path; collect_cookies may raise.
RunDomainAbort ==
    /\ cmp_pc = "cmp_done"
    /\ cmp_ret.kind = "return"
    /\ cmp_ret.cmp_type = "FAILED" \/ cmp_ret.crawl_state # "SUCCESS"
    /\ cmp_pc' = "visit_done"
    /\ steps' = Append(steps, Step("collect_cookies", RootUrl))
    /\ \/ \E collected \in CollectedCookies : WorkerReturns(abort_cookies(collected))
       \/ \E exc \in SessionExceptions : WorkerBoundary(exc)
    /\ UNCHANGED <<page, presence, scrapes, stored, cmp_ret, page_state, root_links,
                   args_num_subpages, links, chosen, ot_calls>>

\* run_domain, lines 161-167: the success path reloads the root page.
RunDomainReload ==
    /\ cmp_pc = "cmp_done"
    /\ cmp_ret.kind = "return"
    /\ ~(cmp_ret.cmp_type = "FAILED" \/ cmp_ret.crawl_state # "SUCCESS")
    /\ steps' = Append(steps, Step("load_page", RootUrl))
    /\ \/ cmp_pc' = "reloaded" /\ UNCHANGED <<visit_ret, visit_exc, retry_list>>
       \/ \E exc \in SessionExceptions : cmp_pc' = "visit_done" /\ WorkerBoundary(exc)
    /\ UNCHANGED <<page, presence, scrapes, stored, cmp_ret, page_state, root_links,
                   args_num_subpages, links, chosen, ot_calls>>

\* random.choices(population, k): k draws with replacement.
choices(population, k) == [1..k -> {population[i] : i \in 1..Len(population)}]

\* A visit that takes the links of the page crawl_cmps left behind, without a reload.
RunDomainLinks_without_reload ==
    /\ cmp_pc = "cmp_done"
    /\ cmp_ret.kind = "return"
    /\ ~(cmp_ret.cmp_type = "FAILED" \/ cmp_ret.crawl_state # "SUCCESS")
    /\ steps' = Append(steps, Step("get_links", RootUrl))
    /\ cmp_pc' = "subpages"
    /\ links' = SelectSeq(root_links, LAMBDA x : is_on_same_domain(x, RootUrl))
    /\ chosen' \in choices(links', Len(links'))
    /\ UNCHANGED <<visit_ret, visit_exc, retry_list, page, presence, scrapes, stored, cmp_ret,
                   page_state, root_links, args_num_subpages, ot_calls>>

\* run_domain, lines 170-178: the links of the page, filtered to the domain of the
\* site, and min(num_subpages, len(links)) of them chosen at random.
RunDomainLinks ==
    /\ cmp_pc = "reloaded"
    /\ steps' = Append(steps, Step("get_links", RootUrl))
    /\ \/ /\ cmp_pc' = "subpages"
          /\ links' = SelectSeq(root_links, LAMBDA x : is_on_same_domain(x, RootUrl))
          /\ chosen' \in choices(links', IF num_subpages < Len(links')
                                         THEN num_subpages ELSE Len(links'))
          /\ UNCHANGED <<visit_ret, visit_exc, retry_list>>
       \/ \E exc \in SessionExceptions :
            /\ cmp_pc' = "visit_done"
            /\ WorkerBoundary(exc)
            /\ UNCHANGED <<links, chosen>>
    /\ UNCHANGED <<page, presence, scrapes, stored, cmp_ret, page_state, root_links,
                   args_num_subpages, ot_calls>>

\* run_domain, lines 179-182: one pass of the loop: load the subpage, shorter bot
\* mitigation.
RunDomainSubpage ==
    /\ cmp_pc = "subpages"
    /\ chosen # <<>>
    /\ \/ /\ steps' = steps \o <<Step("load_page", Head(chosen)),
                                 Step("bot_mitigation", Head(chosen))>>
          /\ chosen' = Tail(chosen)
          /\ UNCHANGED <<cmp_pc, visit_ret, visit_exc, retry_list>>
       \/ \E exc \in SessionExceptions :
            /\ steps' = Append(steps, Step("load_page", Head(chosen)))
            /\ cmp_pc' = "visit_done"
            /\ WorkerBoundary(exc)
            /\ UNCHANGED chosen
    /\ UNCHANGED <<page, presence, scrapes, stored, cmp_ret, page_state, root_links,
                   args_num_subpages, links, ot_calls>>

\* run_domain, lines 184-205: after the loop the cookies are collected and the result
\* of crawl_cmps is returned; collect_cookies may raise.
RunDomainSuccess ==
    /\ cmp_pc = "subpages"
    /\ chosen = <<>>
    /\ cmp_pc' = "visit_done"
    /\ steps' = Append(steps, Step("collect_cookies", RootUrl))
    /\ \/ \E cookies \in CollectedCookies : WorkerReturns(cookies)
       \/ \E exc \in SessionExceptions : WorkerBoundary(exc)
    /\ UNCHANGED <<page, presence, scrapes, stored, cmp_ret, page_state, root_links,
                   args_num_subpages, links, chosen, ot_calls>>

\* run_domain_with_timeout: crawl_cmps raised.
RunDomainCmpRaised ==
    /\ cmp_pc = "cmp_done"
    /\ cmp_ret.kind = "raise"
    /\ cmp_pc' = "visit_done"
    /\ WorkerBoundary(cmp_ret.exc)
    /\ UNCHANGED <<page, presence, scrapes, stored, cmp_ret, page_state, tailVars>>

(***************************************************************************)
(* Crawl orchestrator (crawler/run_consent_crawl_uc.py): run_crawler, the  *)
(* pebble process pool, and the watcher process _kill_browsers_deamon.     *)
(***************************************************************************)

NumVisits == 3        \* len(visits)
MaxBrowsers == 2      \* largest args.num_browsers
MaxTimeout == 1       \* largest args.timeout, in clock ticks
MaxTime == 6          \* the clock stops here

Visits == 1..NumVisits

\* Process names as the words they are made of; psutil reports "chrome",
\* "chromedriver" and, for the crawler and its pool workers, "python".
ChromeName == <<"chrome">>
DriverName == <<"chrome", "driver">>
PythonName == <<"python">>

\* "chrome" in proc.name()
is_chrome(name) == \E k \in DOMAIN name : name[k] = "chrome"

Proc(name, t, v, b) ==
    [name |-> name, create_time |-> t, status |-> "running", visit |-> v, browser |-> b]

\* A watcher that kills from twice the timeout on.
too_old_after_twice(to) == to * 2

\* _kill_browsers_deamon, line 491: the age from which a process is killed
too_old_after(to) == to * 4

\* One iteration of the for loop of _kill_browsers_deamon on one process of
\* psutil.process_iter(): the process afterwards. parent_alive: the process that started
\* it still runs, so a killed process stays in the table as a zombie.
kill_if_too_old(proc, current_time, to, parent_alive) ==
    IF ~is_chrome(proc.name) THEN proc
    ELSE IF proc.create_time # 0 /\ (current_time - proc.create_time) >= too_old_after(to)
         THEN IF proc.status = "zombie"
              THEN proc              \* os.waitpid on a process that is not a child
              ELSE [proc EXCEPT !.status = IF parent_alive THEN "zombie" ELSE "gone"]
         ELSE proc

\* Every visit is given the first Chrome object.
NewBrowser_shared(n) == 1

\* run_domain, lines 110-118: every call builds its own Chrome object.
NewBrowser(n) == n + 1

\* run_crawler, line 690
n_jobs == IF num_browsers < NumVisits THEN num_browsers ELSE NumVisits

Running == {v \in Visits : task[v] = "running"}

\* The watcher loops of the two entry scripts: _kill_browsers_deamon of
\* crawler/run_consent_crawl_uc.py and check of src/run_consent_crawl_uc.py. Their
\* passes treat a process alike (same name test, same age test, kill).
WatcherTargets == {"_kill_browsers_deamon", "check"}

CrawlInit ==
    /\ num_browsers \in 1..MaxBrowsers
    /\ timeout \in 1..MaxTimeout
    /\ now = 1
    /\ task = [v \in Visits |-> "pending"]
    /\ vstart = [v \in Visits |-> 0]
    /\ vbrowser = [v \in Visits |-> 0]
    /\ nbrowsers = 0
    /\ procs = <<Proc(PythonName, 1, 0, 0)>>
    /\ next_i = 1
    /\ nresults = [v \in Visits |-> 0]
    /\ retry = <<>>
    /\ watcher = "running"
    /\ watcher_target \in WatcherTargets

\* The visit that can start now: the next of the list, in the main process when
\* num_browsers = 1 (loop of lines 673-687, one visit after the other), else in a fresh
\* pool worker (max_workers = n_jobs, max_tasks = 1; tasks are handed out in order).
CanStart(v) ==
    /\ task[v] = "pending"
    /\ \A w \in Visits : w < v => task[w] # "pending"
    /\ IF num_browsers = 1
       THEN next_i = v
       ELSE Cardinality(Running) < n_jobs

\* A visit starts: run_domain_with_timeout is entered and run_domain opens its browser
\* (driver and browser process).
StartVisit(v) ==
    /\ CanStart(v)
    /\ task' = [task EXCEPT ![v] = "running"]
    /\ vstart' = [vstart EXCEPT ![v] = now]
    /\ LET b == NewBrowser(nbrowsers)
           worker == IF num_browsers = 1 THEN <<>> ELSE <<Proc(PythonName, now, v, 0)>>
           browser == <<Proc(DriverName, now, v, b), Proc(ChromeName, now, v, b)>>
       IN  /\ procs' = procs \o worker \o browser
           /\ vbrowser' = [vbrowser EXCEPT ![v] = b]
           /\ nbrowsers' = nbrowsers + 1
    /\ UNCHANGED <<watcher_target, num_browsers, timeout, now, next_i, nresults, retry, watcher>>

\* The processes of visit v after its run_domain_with_timeout call ended.
\* returned: Chrome.__exit__ ran (driver.quit, then it waits for the browser to stop) and
\* a pool worker exits after its one task. Otherwise the worker was killed: its browser
\* and driver keep running, its zombies are reaped by init.
after_visit(ps, v, returned) ==
    [k \in DOMAIN ps |->
        IF ps[k].visit # v THEN ps[k]
        ELSE IF returned \/ ~is_chrome(ps[k].name) \/ ps[k].status = "zombie"
             THEN [ps[k] EXCEPT !.status = "gone"]
             ELSE ps[k]]

\* run_domain_with_timeout returns its one tuple (lines 220, 235, 254). In the pool a
\* task that is over its timeout is not waited for any longer.
VisitReturns(v) ==
    /\ task[v] = "running"
    /\ num_browsers > 1 => now - vstart[v] <= timeout
    /\ task' = [task EXCEPT ![v] = "done"]
    /\ procs' = after_visit(procs, v, TRUE)
    /\ UNCHANGED <<watcher_target, num_browsers, timeout, now, vstart, vbrowser, nbrowsers, next_i,
                   nresults, retry, watcher>>

\* pool.map(..., timeout=args.timeout), line 700: pebble stops the worker of a task
\* that ran for the timeout; next(it) will raise TimeoutError for it. The task is lost.
PoolTimeout(v) ==
    /\ num_browsers > 1
    /\ task[v] = "running"
    /\ now - vstart[v] >= timeout
    /\ task' = [task EXCEPT ![v] = "lost"]
    /\ procs' = after_visit(procs, v, FALSE)
    /\ UNCHANGED <<watcher_target, num_browsers, timeout, now, vstart, vbrowser, nbrowsers, next_i,
                   nresults, retry, watcher>>

\* A pool worker dies while it runs a visit; next(it) will raise ProcessExpired. The
\* task is lost.
WorkerExpired(v) ==
    /\ num_browsers > 1
    /\ task[v] = "running"
    /\ task' = [task EXCEPT ![v] = "lost"]
    /\ procs' = after_visit(procs, v, FALSE)
    /\ UNCHANGED <<watcher_target, num_browsers, timeout, now, vstart, vbrowser, nbrowsers, next_i,
                   nresults, retry, watcher>>

\* The result loop taking the outcomes in the order in which the tasks end instead of the
\* order of visits, while still naming visits[i]: what line 736 would write if next(it)
\* did not keep the order of the list.
NextResult_as_completed ==
    /\ next_i \in Visits
    /\ \E v \in Visits :
          /\ v >= next_i
          /\ task[v] \in {"done", "lost"}
          /\ IF task[v] = "done"
             THEN /\ nresults' = [nresults EXCEPT ![next_i] = @ + 1]
                  /\ UNCHANGED retry
             ELSE /\ retry' = Append(retry, next_i)
                  /\ UNCHANGED nresults
    /\ next_i' = next_i + 1
    /\ UNCHANGED <<watcher_target, num_browsers, timeout, now, task, vstart, vbrowser, nbrowsers, procs,
                   watcher>>

\* One iteration of the result loop: lines 682-687 (num_browsers = 1) or 708-738 (pool,
\* next(it) yields the results in the order of visits).
NextResult ==
    /\ next_i \in Visits
    /\ task[next_i] \in {"done", "lost"}
    /\ IF task[next_i] = "done"
       THEN /\ nresults' = [nresults EXCEPT ![next_i] = @ + 1]      \* session.merge
            /\ UNCHANGED retry
       ELSE /\ retry' = Append(retry, next_i)                        \* except branches
            /\ UNCHANGED nresults
    /\ next_i' = next_i + 1
    /\ UNCHANGED <<watcher_target, num_browsers, timeout, now, task, vstart, vbrowser, nbrowsers, procs,
                   watcher>>

\* Time passes. The pool does not let a task run on beyond its timeout, and a visit
\* that can start does so without delay.
Tick ==
    /\ now < MaxTime
    /\ \A v \in Visits : ~CanStart(v)
    /\ num_browsers > 1 => \A v \in Running : now - vstart[v] < timeout
    /\ now' = now + 1
    /\ UNCHANGED <<watcher_target, num_browsers, timeout, task, vstart, vbrowser, nbrowsers, procs,
                   next_i, nresults, retry, watcher>>

\* One pass of the while loop of _kill_browsers_deamon over psutil.process_iter().
KillBrowsersPass ==
    /\ watcher = "running"
    /\ procs' = [k \in DOMAIN procs |->
                    IF procs[k].status = "gone" THEN procs[k]
                    ELSE kill_if_too_old(procs[k], now, timeout,
                                         procs[k].visit \in Running)]
    /\ UNCHANGED <<watcher_target, num_browsers, timeout, now, task, vstart, vbrowser, nbrowsers,
                   next_i, nresults, retry, watcher>>

\* A pass of the watcher in which inspecting or killing process k raises (the process
\* went away in the meantime, or access is denied). _kill_browsers_deamon catches the
\* error inside the for loop (lines 483, 513-515) and goes on with the next process.
\* check of src/run_consent_crawl_uc.py has no try block: the error leaves the
\* `while True` loop and the watcher process ends.
KillBrowsersPassError(k) ==
    /\ watcher = "running"
    /\ k \in DOMAIN procs
    /\ procs[k].status # "gone"
    /\ LET caught == watcher_target = "_kill_browsers_deamon"
       IN  /\ procs' = [j \in DOMAIN procs |->
                          IF procs[j].status = "gone" \/ j = k \/ (~caught /\ j > k)
                          THEN procs[j]
                          ELSE kill_if_too_old(procs[j], now, timeout,
                                               procs[j].visit \in Running)]
           /\ watcher' = IF caught THEN watcher ELSE "dead"
    /\ UNCHANGED <<watcher_target, num_browsers, timeout, now, task, vstart, vbrowser,
                   nbrowsers, next_i, nresults, retry>>

\* run_crawler, line 757, after the result loop: watcher.kill()
Finish ==
    /\ next_i = NumVisits + 1
    /\ watcher = "running"
    /\ watcher' = "killed"
    /\ UNCHANGED <<watcher_target, num_browsers, timeout, now, task, vstart, vbrowser, nbrowsers, procs,
                   next_i, nresults, retry>>

(***************************************************************************)
(* Specifications                                                          *)
(***************************************************************************)

(***************************************************************************)
(* The parsers on their own: the category loop of the Cookiebot scrape and  *)
(* the bracket scan of OneTrust Variant B.                                  *)
(***************************************************************************)
MaxCcEntries == 1
MaxScriptLen == 6

\* The entries of a category array: [name, domain] alone, or all six fields.
CcEntries ==
    {<<n, "domain">> : n \in {"n1", "n2"}}
    \cup {<<n, "domain", "purpose", "expiry", "type_name", "type_id">> : n \in {"n1", "n2"}}

\* A cc.js body: per category of name_to_cat, whether its pattern matches and the
\* array it decodes to.
CcBodies ==
    [1..Len(name_to_cat) ->
        {[found |-> FALSE, cookies |-> <<>>]}
        \cup {[found |-> TRUE, cookies |-> cs] : cs \in SeqsUpTo(CcEntries, MaxCcEntries)}]

\* store_consent_data(name=c[0], domain=c[1], cat_id=cat_id, cat_name=cat_name, ...),
\* lines 174-185; the category ids of name_to_cat are 0..4 in table order.
store_consent_data(c, i) ==
    [name |-> c[1], domain |-> c[2], cat_id |-> i - 1, cat_name |-> name_to_cat[i]]

\* Lines 169-172: `c[2] if len(c) >= 2`, ..., `c[5] if len(c) >= 5`; lines 175-176:
\* c[0], c[1]. An index beyond the entry raises IndexError.
entry_raises(c) ==
    \/ Len(c) < 2
    \/ \E k \in 2..5 : Len(c) >= k /\ Len(c) < k + 1

\* The loop over the cookies of category i from entry k on (lines 165-185):
\* the rows stored, and whether an entry raised.
RECURSIVE cookies_loop(_, _, _, _)
cookies_loop(cookies, k, i, rows) ==
    IF k > Len(cookies) THEN [raised |-> FALSE, rows |-> rows]
    ELSE IF entry_raises(cookies[k]) THEN [raised |-> TRUE, rows |-> rows]
    ELSE cookies_loop(cookies, k + 1, i, Append(rows, store_consent_data(cookies[k], i)))

\* The category loop of CookiebotCMP.scrape (lines 150-204) from category i on.
RECURSIVE category_loop(_, _, _)
category_loop(js, i, rows) ==
    IF i > Len(name_to_cat)
    THEN [state |-> IF Len(rows) = 0 THEN "NO_COOKIES" ELSE "SUCCESS", stored |-> rows]
    ELSE IF ~js[i].found THEN category_loop(js, i + 1, rows)
    ELSE LET r == cookies_loop(js[i].cookies, 1, i, rows)
         IN  IF r.raised THEN [state |-> "MALFORM_RESP", stored |-> r.rows]
             ELSE category_loop(js, i + 1, r.rows)

NoBody == [i \in 1..Len(name_to_cat) |-> [found |-> FALSE, cookies |-> <<>>]]

\* The characters of a script that matter to the scan; "," stands for any other.
Chars == {"[", "]", "\"", "\\", ","}

ScanInit ==
    /\ scan_i = 1
    /\ open_brackets = 1
    /\ in_quotes = FALSE
    /\ group_string = ""

ParseIdle ==
    /\ js_contents = NoBody
    /\ cc_ret = NoRet
    /\ onetrust_script = <<>>
    /\ ScanInit

\* CookiebotCMP.scrape, lines 150-204, on one body.
CookiebotParse ==
    /\ cc_ret = NoRet
    /\ cc_ret' = category_loop(js_contents, 1, <<>>)
    /\ UNCHANGED <<js_contents, onetrust_script, scan_i, open_brackets, in_quotes,
                   group_string>>

\* _variantB_parse_script_for_object, lines 785-791: one round of the while loop.
ScanStep ==
    /\ group_string = ""
    /\ scan_i <= Len(onetrust_script) /\ open_brackets > 0
    /\ LET ch == onetrust_script[scan_i]
           q == IF ch = "\"" THEN ~in_quotes ELSE in_quotes
       IN  /\ in_quotes' = q
           /\ open_brackets' = IF q THEN open_brackets
                               ELSE IF ch = "[" THEN open_brackets + 1
                               ELSE IF ch = "]" THEN open_brackets - 1
                               ELSE open_brackets
    /\ scan_i' = scan_i + 1
    /\ UNCHANGED <<js_contents, cc_ret, onetrust_script, group_string>>

\* _variantB_parse_script_for_object, line 792: the loop is over,
\* group_string = onetrust_script[startpoint + 1 : i]; kept here is its end.
ScanCut ==
    /\ group_string = ""
    /\ ~(scan_i <= Len(onetrust_script) /\ open_brackets > 0)
    /\ group_string' = "cut"
    /\ UNCHANGED <<js_contents, cc_ret, onetrust_script, scan_i, open_brackets, in_quotes>>

(***************************************************************************)
(* CBConsentCrawlerBrowser.execute_in_IFrames (crawler/browser.py)         *)
(***************************************************************************)

MaxFrames == 3        \* most iframes of a page

\* What an iframe does to the probe: the probe finds nothing in it, finds something,
\* or the element is stale when the driver switches to it or while the probe runs.
FrameOutcomes == {"empty", "found", "stale_switch", "stale_command"}

\* The timeouts the detectors call execute_in_IFrames with (cookiebot.py 280,
\* onetrust.py 177 and 236).
Timeouts == {3, 5}

NoResult == [kind |-> "pending", frame |-> 0]

FramesInit ==
    /\ fr_pc = "command"
    /\ fr_i = 1
    /\ focus = 0
    /\ fr_probes = <<>>
    /\ fr_ret = NoResult

\* No probe is under way.
FramesIdle ==
    FramesInit /\ fr_top = FALSE /\ fr_iframes = <<>> /\ fr_timeout = 3
        /\ exit_pc = "__exit__" /\ use_temp = TRUE /\ browser_proc = "running"
        /\ quit_failed = FALSE /\ sleeps = 0 /\ temp_dir = "present"
        /\ temp_download_directory = "present"

\* One call of command: the frame it ran in and its timeout.
Probe(frame, t) == [frame |-> frame, timeout |-> t]

\* execute_in_IFrames, lines 519-524: the probe in the current frame with the timeout
\* of the caller; with no result the driver goes to the default content and the
\* iframes are listed.
ExecuteInIFramesCommand ==
    /\ fr_pc = "command"
    /\ fr_probes' = Append(fr_probes, Probe(focus, fr_timeout))
    /\ IF fr_top
       THEN /\ fr_pc' = "return"
            /\ fr_ret' = [kind |-> "result", frame |-> focus]
            /\ UNCHANGED focus
       ELSE /\ fr_pc' = "for"
            /\ focus' = 0
            /\ UNCHANGED fr_ret
    /\ UNCHANGED <<fr_top, fr_iframes, fr_timeout, fr_i, exitVars>>

\* A loop that gives up at the first stale iframe.
ExecuteInIFramesFor_stale_ends ==
    /\ fr_pc = "for"
    /\ fr_i <= Len(fr_iframes)
    /\ CASE fr_iframes[fr_i] \in {"stale_switch", "stale_command"} ->
              /\ focus' = 0
              /\ fr_pc' = "return"
              /\ fr_ret' = [kind |-> "none", frame |-> 0]
              /\ UNCHANGED <<fr_probes, fr_i>>
         [] fr_iframes[fr_i] = "empty" ->
              /\ focus' = fr_i
              /\ fr_probes' = Append(fr_probes, Probe(fr_i, 0))
              /\ fr_i' = fr_i + 1
              /\ UNCHANGED <<fr_pc, fr_ret>>
         [] OTHER ->
              /\ fr_probes' = Append(fr_probes, Probe(fr_i, 0))
              /\ focus' = 0
              /\ fr_pc' = "return"
              /\ fr_ret' = [kind |-> "result", frame |-> fr_i]
              /\ UNCHANGED fr_i
    /\ UNCHANGED <<fr_top, fr_iframes, fr_timeout, exitVars>>

\* execute_in_IFrames, lines 526-539: one pass of the loop over the iframes: default
\* content, switch to the iframe, probe with timeout 0; a result is returned after
\* the switch back to the default content; StaleElementReferenceException, from the
\* switch or from the probe, goes on with the next iframe.
ExecuteInIFramesFor ==
    /\ fr_pc = "for"
    /\ fr_i <= Len(fr_iframes)
    /\ CASE fr_iframes[fr_i] = "stale_switch" ->
              /\ focus' = 0
              /\ fr_i' = fr_i + 1
              /\ UNCHANGED <<fr_probes, fr_pc, fr_ret>>
         [] fr_iframes[fr_i] \in {"stale_command", "empty"} ->
              /\ focus' = fr_i
              /\ fr_probes' = Append(fr_probes, Probe(fr_i, 0))
              /\ fr_i' = fr_i + 1
              /\ UNCHANGED <<fr_pc, fr_ret>>
         [] OTHER ->
              /\ fr_probes' = Append(fr_probes, Probe(fr_i, 0))
              /\ focus' = 0
              /\ fr_pc' = "return"
              /\ fr_ret' = [kind |-> "result", frame |-> fr_i]
              /\ UNCHANGED fr_i
    /\ UNCHANGED <<fr_top, fr_iframes, fr_timeout, exitVars>>

\* An end of the loop that leaves the driver in the iframe probed last.
ExecuteInIFramesNone_no_switch ==
    /\ fr_pc = "for"
    /\ fr_i > Len(fr_iframes)
    /\ fr_pc' = "return"
    /\ fr_ret' = [kind |-> "none", frame |-> 0]
    /\ UNCHANGED <<fr_top, fr_iframes, fr_timeout, fr_i, fr_probes, focus, exitVars>>

\* execute_in_IFrames, lines 541-542: the loop is over; default content, return None.
ExecuteInIFramesNone ==
    /\ fr_pc = "for"
    /\ fr_i > Len(fr_iframes)
    /\ focus' = 0
    /\ fr_pc' = "return"
    /\ fr_ret' = [kind |-> "none", frame |-> 0]
    /\ UNCHANGED <<fr_top, fr_iframes, fr_timeout, fr_i, fr_probes, exitVars>>

(***************************************************************************)
(* Chrome.__exit__ and Browser.__exit__ (crawler/browser.py)               *)
(***************************************************************************)

MaxSleeps == 4        \* most passes of the wait loop that are counted

ExitInit ==
    /\ exit_pc = "__exit__"
    /\ browser_proc = "running"
    /\ quit_failed = FALSE
    /\ sleeps = 0
    /\ temp_dir = "present"
    /\ temp_download_directory = "present"

\* The browser process ends: driver.quit() took effect, the browser crashed, or the
\* watcher killed it.
BrowserStops ==
    /\ browser_proc = "running"
    /\ browser_proc' = "stopped"
    /\ UNCHANGED <<exit_pc, use_temp, quit_failed, sleeps, temp_dir, temp_download_directory>>

\* Browser.__exit__, lines 160-174: Escape, driver.quit(); an exception of either is
\* logged and dropped. The browser process may outlive the call.
BrowserExit ==
    /\ exit_pc = "__exit__"
    /\ exit_pc' = "Process"
    /\ quit_failed' \in BOOLEAN
    /\ UNCHANGED <<use_temp, browser_proc, sleeps, temp_dir, temp_download_directory>>

\* Chrome.__exit__, lines 955-964: psutil.Process(pid) raises NoSuchProcess for a
\* process that is gone already; the except clause of line 975 logs and returns.
ChromeExitProcess ==
    /\ exit_pc = "Process"
    /\ exit_pc' = IF browser_proc = "stopped" THEN "done" ELSE "while"
    /\ UNCHANGED <<use_temp, browser_proc, quit_failed, sleeps, temp_dir,
                   temp_download_directory>>

\* A wait that looks at the process once and goes on.
ChromeExitWhile_once ==
    /\ exit_pc = "while"
    /\ exit_pc' = "cleanup"
    /\ sleeps' = IF sleeps < MaxSleeps THEN sleeps + 1 ELSE sleeps
    /\ UNCHANGED <<use_temp, browser_proc, quit_failed, temp_dir, temp_download_directory>>

\* Chrome.__exit__, lines 966-969: while p.is_running(): sleep 10 seconds; after the
\* loop one more second.
ChromeExitWhile ==
    /\ exit_pc = "while"
    /\ IF browser_proc = "running"
       THEN /\ sleeps < MaxSleeps
            /\ sleeps' = sleeps + 1
            /\ UNCHANGED exit_pc
       ELSE /\ exit_pc' = "cleanup"
            /\ UNCHANGED sleeps
    /\ UNCHANGED <<use_temp, browser_proc, quit_failed, temp_dir, temp_download_directory>>

\* Chrome.__exit__, lines 971-978: the profile directory is removed if it is a
\* temporary one, then the download directory; an exception of either cleanup ends
\* the block.
ChromeExitCleanup ==
    /\ exit_pc = "cleanup"
    /\ exit_pc' = "done"
    /\ \E first_raises, second_raises \in BOOLEAN :
          /\ temp_dir' = IF use_temp /\ ~first_raises THEN "removed" ELSE temp_dir
          /\ temp_download_directory' =
                IF (use_temp /\ first_raises) \/ second_raises
                THEN temp_download_directory ELSE "removed"
    /\ UNCHANGED <<use_temp, browser_proc, quit_failed, sleeps>>

\* No visit is under way.
NoVisit == Merge(Presence(FALSE, FALSE, FALSE), Merge(NoOnetrust, NoCookiebot))

\* No crawl is under way.
CrawlIdle ==
    CrawlInit /\ num_browsers = 1 /\ timeout = 1 /\ watcher_target = "_kill_browsers_deamon"

\* A root page with one link into the site and one out of it; --num-subpages left at
\* its default.
VisitConfig ==
    /\ root_links = <<"https://www.site.example/b", "https://other.example/c">>
    /\ args_num_subpages = DefaultSubpages


\* The page-load state tracker on its own.
LoadNext ==
    NetworkEvent /\ UNCHANGED <<visitVars, crawlVars, navVars, parseVars, browserVars>>

InitLoad ==
    LoadInit /\ FramesIdle /\ VisitInit /\ VisitConfig /\ page = NoVisit /\ CrawlIdle /\ NavInit /\ ParseIdle

SpecLoad == InitLoad /\ [][LoadNext]_vars

\* One visit on its own.
VisitNext ==
    \/ RunDomainInvalidUrl /\ UNCHANGED <<loadVars, crawlVars, navVars, parseVars, browserVars>>
    \/ RunDomainLoadPage /\ UNCHANGED <<loadVars, crawlVars, navVars, parseVars, browserVars>>
    \/ RunDomainWrongUrl /\ UNCHANGED <<loadVars, crawlVars, navVars, parseVars, browserVars>>
    \/ RunDomainBotMitigation /\ UNCHANGED <<loadVars, crawlVars, navVars, parseVars, browserVars>>
    \/ CrawlCmpsCtorRaises /\ UNCHANGED <<loadVars, crawlVars, navVars, parseVars, browserVars>>
    \/ CrawlCmpsPresence /\ UNCHANGED <<loadVars, crawlVars, navVars, parseVars, browserVars>>
    \/ CrawlCmpsScrape /\ UNCHANGED <<loadVars, crawlVars, navVars, parseVars, browserVars>>
    \/ RunDomainAbort /\ UNCHANGED <<loadVars, crawlVars, navVars, parseVars, browserVars>>
    \/ RunDomainReload /\ UNCHANGED <<loadVars, crawlVars, navVars, parseVars, browserVars>>
    \/ RunDomainLinks /\ UNCHANGED <<loadVars, crawlVars, navVars, parseVars, browserVars>>
    \/ RunDomainSubpage /\ UNCHANGED <<loadVars, crawlVars, navVars, parseVars, browserVars>>
    \/ RunDomainSuccess /\ UNCHANGED <<loadVars, crawlVars, navVars, parseVars, browserVars>>
    \/ RunDomainCmpRaised /\ UNCHANGED <<loadVars, crawlVars, navVars, parseVars, browserVars>>

InitVisit ==
    LoadInit /\ FramesIdle /\ VisitInit /\ VisitConfig /\ CrawlIdle /\ NavInit /\ ParseIdle

SpecVisit == InitVisit /\ [][VisitNext]_vars

MaxLinks == 2         \* most links on the root page
MaxSubpages == 2      \* largest args.num_subpages

\* One visit of a site without Cookiebot, with every root page of up to MaxLinks links
\* and every --num-subpages up to MaxSubpages.
InitTail ==
    /\ LoadInit /\ FramesIdle /\ VisitInit /\ CrawlIdle /\ NavInit /\ ParseIdle
    /\ ~page.cb_present
    /\ root_links \in UNION {[1..n -> LinkUrls] : n \in 0..MaxLinks}
    /\ args_num_subpages \in 0..MaxSubpages

SpecTail == InitTail /\ [][VisitNext]_vars

\* The crawl: visits as a whole, the pool, the clock and the watcher.
Init ==
    LoadInit /\ FramesIdle /\ VisitInit /\ VisitConfig /\ page = NoVisit /\ CrawlInit /\ NavInit /\ ParseIdle

Next ==
    \/ (\E v \in Visits : StartVisit(v)) /\ UNCHANGED <<loadVars, visitVars, navVars, parseVars, browserVars>>
    \/ (\E v \in Visits : VisitReturns(v)) /\ UNCHANGED <<loadVars, visitVars, navVars, parseVars, browserVars>>
    \/ (\E v \in Visits : PoolTimeout(v)) /\ UNCHANGED <<loadVars, visitVars, navVars, parseVars, browserVars>>
    \/ (\E v \in Visits : WorkerExpired(v)) /\ UNCHANGED <<loadVars, visitVars, navVars, parseVars, browserVars>>
    \/ NextResult /\ UNCHANGED <<loadVars, visitVars, navVars, parseVars, browserVars>>
    \/ Tick /\ UNCHANGED <<loadVars, visitVars, navVars, parseVars, browserVars>>
    \/ KillBrowsersPass /\ UNCHANGED <<loadVars, visitVars, navVars, parseVars, browserVars>>
    \/ (\E k \in 1..(1 + 3 * NumVisits) : KillBrowsersPassError(k))
           /\ UNCHANGED <<loadVars, visitVars, navVars, parseVars, browserVars>>
    \/ Finish /\ UNCHANGED <<loadVars, visitVars, navVars, parseVars, browserVars>>

Spec == Init /\ [][Next]_vars

\* One browser: load_page calls one after the other, with events arriving meanwhile.
InitNav ==
    LoadInit /\ FramesIdle /\ VisitInit /\ VisitConfig /\ page = NoVisit /\ CrawlIdle /\ NavInit /\ ParseIdle

NavNext ==
    \/ (\E url \in Urls, outcome \in GetOutcomes : LoadPageGet(url, outcome))
           /\ UNCHANGED <<last_event, visitVars, crawlVars, parseVars, browserVars>>
    \/ LoadPageFirstLookup /\ UNCHANGED <<last_event, visitVars, crawlVars, parseVars, browserVars>>
    \/ LoadPageRecheck /\ UNCHANGED <<last_event, visitVars, crawlVars, parseVars, browserVars>>
    \/ LoadPageTry /\ UNCHANGED <<last_event, visitVars, crawlVars, parseVars, browserVars>>
    \/ (\E data \in Events : NavCdpEvent(data))
           /\ UNCHANGED <<last_event, visitVars, crawlVars, parseVars, browserVars>>
    \/ (\E data \in Events : NavInterceptedRequest(data))
           /\ UNCHANGED <<last_event, visitVars, crawlVars, parseVars, browserVars>>

SpecNav == InitNav /\ [][NavNext]_vars

\* The two callbacks on their own, while load_page waits in its settle delay; the
\* event handled last is kept.
InitRedirect ==
    /\ LoadInit /\ FramesIdle /\ VisitInit /\ VisitConfig /\ page = NoVisit /\ CrawlIdle /\ ParseIdle
    /\ nav_url \in Urls
    /\ last_loaded_url = nav_url
    /\ nav_pc = "sleep"
    /\ nav_error = FALSE
    /\ tries = 0
    /\ nav_ret = "none"
    /\ nav_line = 0

RedirectNext ==
    \/ (\E data \in Events : NavCdpEvent(data) /\ last_event' = data)
           /\ UNCHANGED <<visitVars, crawlVars, parseVars, browserVars>>
    \/ (\E data \in Events : NavInterceptedRequest(data) /\ last_event' = data)
           /\ UNCHANGED <<visitVars, crawlVars, parseVars, browserVars>>

SpecRedirect == InitRedirect /\ [][RedirectNext]_vars

\* The category loop of the Cookiebot scrape on its own.
InitCookiebot ==
    /\ LoadInit /\ FramesIdle /\ VisitInit /\ VisitConfig /\ page = NoVisit /\ CrawlIdle /\ NavInit
    /\ js_contents \in CcBodies
    /\ cc_ret = NoRet
    /\ onetrust_script = <<>>
    /\ ScanInit

CookiebotNext == CookiebotParse /\ UNCHANGED <<loadVars, visitVars, crawlVars, navVars, browserVars>>

SpecCookiebot == InitCookiebot /\ [][CookiebotNext]_vars

\* One call of execute_in_IFrames on a page of up to MaxFrames iframes.
InitFrames ==
    /\ LoadInit /\ VisitInit /\ VisitConfig /\ page = NoVisit /\ CrawlIdle /\ NavInit
    /\ ParseIdle
    /\ FramesInit /\ ExitInit /\ use_temp = TRUE
    /\ fr_top \in BOOLEAN
    /\ fr_iframes \in SeqsUpTo(FrameOutcomes, MaxFrames)
    /\ fr_timeout \in Timeouts

FramesNext ==
    \/ ExecuteInIFramesCommand /\ UNCHANGED <<loadVars, visitVars, crawlVars, navVars, parseVars>>
    \/ ExecuteInIFramesFor /\ UNCHANGED <<loadVars, visitVars, crawlVars, navVars, parseVars>>
    \/ ExecuteInIFramesNone /\ UNCHANGED <<loadVars, visitVars, crawlVars, navVars, parseVars>>

SpecFrames == InitFrames /\ [][FramesNext]_vars

\* One exit of the browser context, with the browser process ending at any time.
InitExit ==
    /\ LoadInit /\ VisitInit /\ VisitConfig /\ page = NoVisit /\ CrawlIdle /\ NavInit
    /\ ParseIdle
    /\ FramesInit /\ fr_top = FALSE /\ fr_iframes = <<>> /\ fr_timeout = 3
    /\ ExitInit
    /\ use_temp \in BOOLEAN

ExitNext ==
    \/ BrowserStops
           /\ UNCHANGED <<loadVars, visitVars, crawlVars, navVars, parseVars, frameVars>>
    \/ BrowserExit
           /\ UNCHANGED <<loadVars, visitVars, crawlVars, navVars, parseVars, frameVars>>
    \/ ChromeExitProcess
           /\ UNCHANGED <<loadVars, visitVars, crawlVars, navVars, parseVars, frameVars>>
    \/ ChromeExitWhile
           /\ UNCHANGED <<loadVars, visitVars, crawlVars, navVars, parseVars, frameVars>>
    \/ ChromeExitCleanup
           /\ UNCHANGED <<loadVars, visitVars, crawlVars, navVars, parseVars, frameVars>>

SpecExit == InitExit /\ [][ExitNext]_vars

\* The bracket scan of Variant B on its own.
InitScan ==
    /\ LoadInit /\ FramesIdle /\ VisitInit /\ VisitConfig /\ page = NoVisit /\ CrawlIdle /\ NavInit
    /\ js_contents = NoBody
    /\ cc_ret = NoRet
    /\ onetrust_script \in SeqsUpTo(Chars, MaxScriptLen)
    /\ ScanInit

ScanNext ==
    \/ ScanStep /\ UNCHANGED <<loadVars, visitVars, crawlVars, navVars, browserVars>>
    \/ ScanCut /\ UNCHANGED <<loadVars, visitVars, crawlVars, navVars, browserVars>>

SpecScan == InitScan /\ [][ScanNext]_vars


(***************************************************************************)
(* Properties                                                              *)
(***************************************************************************)

\* C1: every visit the result loop is through with has exactly one ConsentCrawlResult
\* merged into the session, whether it returned, timed out or lost its worker.
C1_ExactlyOneResultPerVisit ==
    \A v \in Visits : v < next_i => nresults[v] = 1

C5_NoVisitRunsBeyondTimeout ==
    \A v \in Visits : task[v] = "running" => now - vstart[v] <= timeout

C7_AtMostNVisitsAndBrowsers ==
    /\ Cardinality(Running) <= num_browsers
    /\ Cardinality({k \in DOMAIN procs :
                       procs[k].name = ChromeName /\ procs[k].status = "running"})
          <= num_browsers

\* C8: two visits that run at the same time never use the same Chrome object, and
\* the processes of one Chrome object all belong to one visit.
C8_NoSharedBrowser ==
    /\ \A v, w \in Visits :
          (v # w /\ task[v] = "running" /\ task[w] = "running" /\ vbrowser[v] # 0)
              => vbrowser[v] # vbrowser[w]
    /\ \A j, k \in DOMAIN procs :
          (procs[j].browser # 0 /\ procs[j].browser = procs[k].browser)
              => procs[j].visit = procs[k].visit

\* C8 witness: two visits run at the same time, each with a browser of its own.
C8_Witness_TwoVisitsTwoBrowsers ==
    \E v, w \in Visits :
        /\ v # w
        /\ task[v] = "running" /\ task[w] = "running"
        /\ vbrowser[v] # 0 /\ vbrowser[w] # 0

\* C9: after the callback handled an event, the state stored for the event's URL is
\* what the callback stores for that event alone, whatever was handled before.
C9_StateIsFunctionOfLastEvent ==
    last_event # NoEvent =>
        load_status[last_event.url]
            = handle_cdp_response_received(EmptyLoadStatus, last_event)[last_event.url]

\* C10: after the callback handled an event, the state stored for the event's URL is
\* the one of the table: error reason -> DNS_ERROR / TIMEOUT / TCP_ERROR, 3xx with
\* Location -> REDIRECT, status >= 400 -> HTTP_ERROR, disallowed content type ->
\* BAD_CONTENT_TYPE, else OK.
C10_ClassifiedByTable ==
    last_event # NoEvent =>
        load_status[last_event.url] =
            CASE last_event.error_reason = "NameNotResolved" -> "DNS_ERROR"
              [] last_event.error_reason = "TimedOut" -> "TIMEOUT"
              [] last_event.error_reason # "none" -> "TCP_ERROR"
              [] last_event.status >= 300 /\ last_event.status < 400
                    /\ last_event.location # "none" -> "REDIRECT"
              [] last_event.status >= 400 -> "HTTP_ERROR"
              [] last_event.content_type # "text/html" -> "BAD_CONTENT_TYPE"
              [] OTHER -> "OK"

C12_NoEntryGivesUnknownError ==
    nav_line \in {273, 276} => nav_ret = "UNKNOWN_ERROR"

\* C13: any exception raised inside a worker during a visit is turned, at the worker
\* boundary, into a result whose cmp_type is FAILED and whose report carries the text
\* of the exception.
C13_ExceptionTextInFailedReport ==
    (cmp_pc = "visit_done" /\ visit_exc # "none")
        => /\ visit_ret.kind = "return"
           /\ visit_ret.cmp_type = "FAILED"
           /\ visit_ret.report.str_e = visit_exc

\* C14: the URL of a visit is appended to the retry list exactly when the visit ended
\* in a transport or session failure, a timeout included; a visit that ended in a
\* vendor-protocol failure is not appended and its crawl state is recorded unchanged.
C14_RetryListIffTransportFailure ==
    LET \* transport or session failures: the page load timed out or the name did not
        \* resolve, the URL had no host (RuntimeError is raised at line 80 alone), or
        \* the session was lost
        TransportFailure ==
            \/ page_state \in {"TIMEOUT", "DNS_ERROR"}
            \/ visit_exc \in RetryExceptions \cup {"RuntimeError"}
        VendorFailures ==
            {"PARSE_ERROR", "MALFORM_RESP", "REGION_BLOCK", "LIBRARY_ERROR",
             "NO_COOKIES", "CMP_NOT_FOUND"}
    IN  cmp_pc = "visit_done"
            => /\ (retry_list # <<>>) <=> TransportFailure
               /\ (~TransportFailure /\ cmp_ret.kind = "return"
                      /\ cmp_ret.crawl_state \in VendorFailures)
                     => /\ retry_list = <<>>
                        /\ visit_ret.crawl_state = cmp_ret.crawl_state

C16_NoVendorGivesCmpNotFound ==
    (cmp_pc = "cmp_done" /\ ~page.ot_present /\ ~page.cb_present /\ ~page.tm_present)
        => /\ cmp_ret = CmpReturn("FAILED", "CMP_NOT_FOUND", <<>>)
           /\ scrapes = <<>>

\* C17: the coordinator tries OneTrust, Cookiebot and Termly, in this order, and on a
\* page that references app.termly.io and neither of the other two it detects TERMLY
\* and invokes the Termly scrape.
C17_TermlyThirdAndDetected ==
    (cmp_pc = "cmp_done" /\ cmp_ret.kind = "return" /\ page.tm_present
        /\ ~page.ot_present /\ ~page.cb_present)
       => /\ presence_check_methods = <<"ONETRUST", "COOKIEBOT", "TERMLY">>
          /\ cmp_ret.cmp_type = "TERMLY"
          /\ scrapes = <<"TERMLY">>

C19_OneRecordPerEntryInTableOrder ==
    "stored" \in DOMAIN cc_ret
        => LET js == js_contents
               n == Len(name_to_cat)
               L(i) == IF js[i].found THEN Len(js[i].cookies) ELSE 0
               Off[i \in 1..(n + 1)] == IF i = 1 THEN 0 ELSE Off[i - 1] + L(i - 1)
           IN  /\ Len(cc_ret.stored) = Off[n + 1]
               /\ \A i \in 1..n : \A k \in 1..L(i) :
                     LET r == cc_ret.stored[Off[i] + k]
                         c == js[i].cookies[k]
                     IN  /\ r.name = c[1]
                         /\ r.domain = c[2]
                         /\ r.cat_name = name_to_cat[i]
                         /\ r.cat_id = i - 1

\* C20: the bracket scan of Variant B, started behind the opening bracket of the
\* Groups array, ends right behind the bracket that closes that array, whatever
\* brackets and commas the double-quoted strings of the array hold.
C20_ScanStopsAtClosingBracket ==
    group_string = "cut"
        => LET s == onetrust_script
               \* the array read as JavaScript: a backslash inside a string escapes
               \* the next character; end = position of the closing bracket, 0 = none
               lex[k \in 0..Len(s)] ==
                   IF k = 0 THEN [depth |-> 1, str |-> FALSE, esc |-> FALSE, end |-> 0]
                   ELSE LET p == lex[k - 1]
                            ch == s[k]
                        IN  IF p.end # 0 THEN p
                            ELSE IF p.str
                            THEN IF p.esc THEN [p EXCEPT !.esc = FALSE]
                                 ELSE IF ch = "\\" THEN [p EXCEPT !.esc = TRUE]
                                 ELSE IF ch = "\"" THEN [p EXCEPT !.str = FALSE]
                                 ELSE p
                            ELSE IF ch = "\"" THEN [p EXCEPT !.str = TRUE]
                            ELSE IF ch = "[" THEN [p EXCEPT !.depth = p.depth + 1]
                            ELSE IF ch = "]"
                            THEN IF p.depth = 1 THEN [p EXCEPT !.depth = 0, !.end = k]
                                 ELSE [p EXCEPT !.depth = p.depth - 1]
                            ELSE p
               true_end == lex[Len(s)].end
           IN  true_end # 0 => scan_i = true_end + 1

\* C21: each worker process owns one browser, started once and reused for every
\* visit of that worker: two visits run by the same process use the same browser.
\* With num_browsers = 1 the visits run in the crawler process itself; a pool worker
\* (max_tasks = 1) is a fresh process per visit.
C21_OneBrowserPerWorker ==
    LET worker(v) == IF num_browsers = 1 THEN 0 ELSE v
    IN  \A v, w \in Visits :
            (vbrowser[v] # 0 /\ vbrowser[w] # 0 /\ worker(v) = worker(w))
                => vbrowser[v] = vbrowser[w]

\* C22: the watcher runs for the whole crawl: it runs before the first browser is
\* started and stops only when the last result has been consumed; neither a worker
\* that died nor an error at one process ends it.
C22_WatcherRunsWholeCrawl ==
    /\ nbrowsers = 0 /\ next_i = 1 => watcher = "running"
    /\ watcher # "running" => next_i = NumVisits + 1

\* C23: the state map is write-once per URL: once a state is stored for a URL, no
\* later network event changes the state stored for that URL.
C23_WriteOncePerUrl ==
    [][\A u \in Urls : load_status[u] # Absent => load_status'[u] = load_status[u]]_vars

C25_DriverErrorReturnsAtOnce ==
    /\ nav_line = 226 => nav_ret = "DNS_ERROR"
    /\ nav_error => /\ nav_pc \notin {"escape", "tries"}
                    /\ nav_pc = "idle" => nav_ret = "UNKNOWN_ERROR"

\* C26: when the callback handles a 3xx response with a Location header for the URL
\* being loaded, the state of the request URL becomes REDIRECT and last_loaded_url
\* becomes the target: an absolute Location as it is, a relative one resolved
\* against the request URL.
C26_RedirectRecordedAndTargetAdvanced ==
    [][(/\ last_event' # last_event
        /\ 300 <= last_event'.status /\ last_event'.status < 400
        /\ last_event'.location # "none"
        /\ last_event'.url = last_loaded_url)
          => /\ load_status'[last_event'.url] = "REDIRECT"
             /\ last_loaded_url' =
                    IF last_event'.location \in Urls THEN last_event'.location
                    ELSE last_event'.url]_vars

\* C27: load_page leaves the state map unchanged: no step of load_page adds, removes
\* or overwrites an entry; only the callbacks write the map.
C27_LoadPageLeavesMapUnchanged ==
    [][<<nav_pc, nav_url, nav_error, tries, nav_ret, nav_line>>'
           # <<nav_pc, nav_url, nav_error, tries, nav_ret, nav_line>>
          => load_status' = load_status]_vars

\* C27 witness: load_page has returned the entry it found at the first lookup, and the
\* entry is still in the map.
C27_Witness_EntryReadAndKept ==
    /\ nav_pc = "idle"
    /\ nav_line = 239
    /\ load_status[nav_url] # Absent
    /\ load_status[nav_url] = nav_ret

\* C28: when crawl_cmps returned the type FAILED or a state other than SUCCESS, the
\* visit has, once it is over, called collect_cookies once and nothing else after
\* crawl_cmps (no second load of the root page, no subpage), and what run_domain
\* returns is the result of crawl_cmps.
C28_AbortCollectsOnceAndReturns ==
    (/\ cmp_ret.kind = "return"
     /\ cmp_ret.cmp_type = "FAILED" \/ cmp_ret.crawl_state # "SUCCESS")
        => /\ cmp_pc = "cmp_done"
                => steps = <<Step("load_page", RootUrl), Step("bot_mitigation", RootUrl),
                             Step("crawl_cmps", RootUrl)>>
           /\ cmp_pc = "visit_done"
                => /\ steps = <<Step("load_page", RootUrl), Step("bot_mitigation", RootUrl),
                                Step("crawl_cmps", RootUrl), Step("collect_cookies", RootUrl)>>
                   /\ visit_exc = "none"
                        => visit_ret = VisitReturn(cmp_ret.cmp_type, cmp_ret.crawl_state,
                                                   cmp_ret.consent_data, cmp_report(cmp_ret),
                                                   <<>>)
           /\ cmp_pc \in {"cmp_done", "visit_done"}
           /\ links = <<>> /\ chosen = <<>>

\* C28 witness: a detector was found, its scrape came back with a state other than
\* SUCCESS, and the visit is over with that result.
C28_Witness_AbortedAfterScrape ==
    /\ cmp_pc = "visit_done"
    /\ cmp_ret.kind = "return"
    /\ cmp_ret.cmp_type # "FAILED"
    /\ cmp_ret.crawl_state # "SUCCESS"
    /\ visit_exc = "none"
    /\ steps[Len(steps)] = Step("collect_cookies", RootUrl)

\* C29: the calls of a successful visit come in the order load root, bot mitigation,
\* crawl_cmps, load root again, get_links, then the subpages (load and mitigation
\* each), then collect_cookies; get_links is never called before the second load of
\* the root page, and collect_cookies is called once, as the last call, after every
\* chosen subpage was visited.
C29_StepsInOrder ==
    LET front == <<Step("load_page", RootUrl), Step("bot_mitigation", RootUrl),
                   Step("crawl_cmps", RootUrl), Step("load_page", RootUrl),
                   Step("get_links", RootUrl)>>
        success == /\ cmp_ret.kind = "return"
                   /\ ~(cmp_ret.cmp_type = "FAILED" \/ cmp_ret.crawl_state # "SUCCESS")
    IN  /\ \A i \in 1..Len(steps) :
              /\ i <= 3 => steps[i] = front[i]
              /\ steps[i].op = "get_links" => i = 5 /\ steps[4] = front[4]
        /\ success =>
              /\ \A i \in 1..Len(steps) :
                    /\ i <= 5 => steps[i] = front[i]
                    /\ i > 5 =>
                          \/ /\ steps[i].url \in LinkUrls
                             /\ steps[i].op = IF i % 2 = 0 THEN "load_page" ELSE "bot_mitigation"
                          \/ /\ steps[i] = Step("collect_cookies", RootUrl)
                             /\ i = Len(steps)
                             /\ i % 2 = 0
                             /\ chosen = <<>>
                             /\ cmp_pc = "visit_done"
              /\ (cmp_pc = "visit_done" /\ visit_exc = "none")
                    => /\ steps[Len(steps)] = Step("collect_cookies", RootUrl)
                       /\ Len(steps) = 6 + 2 * Len(links)

\* C29 witness: a successful visit is over, a subpage was visited, and the cookies
\* were collected after it.
C29_Witness_SubpageThenCookies ==
    /\ cmp_pc = "visit_done"
    /\ visit_exc = "none"
    /\ cmp_ret.kind = "return"
    /\ cmp_ret.crawl_state = "SUCCESS"
    /\ Len(steps) = 8
    /\ steps[6] = Step("load_page", "https://www.site.example/b")
    /\ steps[8] = Step("collect_cookies", RootUrl)

C31_CbidFoundByEveryVariant ==
    (/\ cmp_pc = "cmp_done"
     /\ scrapes = <<"COOKIEBOT">>
     /\ page.cb_has_crawl)
        => /\ page.cb_cbid = "v3" => cookiebot_scrape(page).kind = "return"
           /\ page.cb_cbid = "none"
                => /\ cookiebot_scrape(page).kind = "return"
                   /\ cookiebot_scrape(page).state = "PARSE_ERROR"

\* C32: the OneTrust scrape probes for Variant B only on a page where the probe of
\* Variant A found its script tag in no frame; where the tag was found, no step of
\* Variant B is made and the scrape ends with what Variant A came to, also when that
\* is a failure of the ruleset index or of the ruleset documents.
C32_VariantBOnlyWithoutVariantATag ==
    (cmp_pc \in {"cmp_done", "visit_done"} /\ scrapes = <<"ONETRUST">>)
        => LET variantB == {i \in 1..Len(ot_calls) :
                               ot_calls[i].call \in {"_variantB_try_retrieve_jsurl",
                                                     "_variantB_parse_script_for_object"}}
               ids == variantA_try_retrieve_ruleset_id(page)
               r == variantA_get_and_parse_json(page)
           IN  /\ ot_calls[1] = Call("_variantA_try_retrieve_ddid", 0)
               /\ variantB # {} <=> ~page.ot_ddid
               /\ page.ot_ddid =>
                     cmp_ret = IF ids.kind = "raise" THEN CmpRaise(ids.exc)
                               ELSE IF ids.state # "SUCCESS"
                               THEN CmpReturn("ONETRUST", ids.state, <<>>)
                               ELSE IF r.state # "SUCCESS"
                               THEN CmpReturn("ONETRUST", r.state, <<>>)
                               ELSE cmp_ret

\* C32 witness: the tag of Variant A was found, the ruleset index lacked a key, the
\* page also carries the script of Variant B, and the scrape ended with PARSE_ERROR.
C32_Witness_VariantAFailureReturned ==
    /\ cmp_pc = "cmp_done"
    /\ scrapes = <<"ONETRUST">>
    /\ page.ot_ddid /\ page.ot_jsurl
    /\ page.ot_index = "key_error"
    /\ cmp_ret = CmpReturn("ONETRUST", "PARSE_ERROR", <<>>)
    /\ Len(ot_calls) = 2

\* C33: Variant A fetches the ruleset documents in the order of the list, one after
\* the other from the first; it fetches none after the first document that yields a
\* cookie, and the records the scrape then returns are the cookies of that document.
C33_FirstYieldingRulesetOnly ==
    (/\ cmp_pc = "cmp_done"
     /\ scrapes = <<"ONETRUST">>
     /\ page.ot_ddid
     /\ page.ot_index = "ok")
        => LET docs == page.ot_rulesets
               fetched == SelectSeq(ot_calls, LAMBDA c : c.call = "get_content")
               yields == {i \in 1..Len(docs) : docs[i].kind \in {"ok", "key_error"}
                                               /\ docs[i].n > 0}
               first == CHOOSE i \in yields : \A j \in yields : i <= j
           IN  /\ \A i \in 1..Len(fetched) : fetched[i].n = i
               /\ Len(fetched) = IF yields = {} THEN Len(docs) ELSE first
               /\ yields # {} => cmp_ret.consent_data = OtRecords(first, docs[first].n)

\* C34: in the OneTrust scrape a missing required key gives the crawl state
\* PARSE_ERROR: in the ruleset index, and in the ruleset documents when every document
\* fetched lacked a required key; and a ruleset document that lacked a key without
\* leaving a cookie is followed by the fetch of the next one.
C34_MissingKeyGivesParseError ==
    (/\ cmp_pc = "cmp_done"
     /\ scrapes = <<"ONETRUST">>
     /\ page.ot_ddid)
        => LET docs == page.ot_rulesets
               fetched == SelectSeq(ot_calls, LAMBDA c : c.call = "get_content")
               lacks_key(d) == d.kind \in {"missing_attr", "key_error"}
           IN  /\ page.ot_index = "key_error"
                     => cmp_ret = CmpReturn("ONETRUST", "PARSE_ERROR", <<>>)
               /\ \A i \in 1..Len(fetched) :
                     (lacks_key(docs[i]) /\ docs[i].n = 0 /\ i < Len(docs))
                         => Len(fetched) > i
               /\ (page.ot_index = "ok" /\ \A i \in 1..Len(docs) :
                                                lacks_key(docs[i]) /\ docs[i].n = 0)
                     => cmp_ret = CmpReturn("ONETRUST", "PARSE_ERROR", <<>>)

\* C35: a OneTrust scrape that went to Variant B never returns SUCCESS and never
\* returns records: with the Groups array found in the script it returns
\* LIBRARY_ERROR, with no Groups array PARSE_ERROR.
C35_VariantBNeverSucceeds ==
    (/\ cmp_pc \in {"cmp_done", "visit_done"}
     /\ scrapes = <<"ONETRUST">>
     /\ \E i \in 1..Len(ot_calls) : ot_calls[i].call = "_variantB_try_retrieve_jsurl")
        => /\ cmp_ret.kind = "return"
           /\ cmp_ret.crawl_state # "SUCCESS"
           /\ cmp_ret.consent_data = <<>>
           /\ (page.ot_jsurl /\ page.ot_script = "groups_found")
                 => cmp_ret.crawl_state = "LIBRARY_ERROR"
           /\ (page.ot_jsurl /\ page.ot_script = "no_groups")
                 => cmp_ret.crawl_state = "PARSE_ERROR"

\* C35 witness: the script of Variant B was fetched, it holds a Groups array, and the
\* scrape came back with LIBRARY_ERROR and no records.
C35_Witness_GroupsFoundLibraryError ==
    /\ cmp_pc = "cmp_done"
    /\ page.ot_script = "groups_found"
    /\ ot_calls # <<>>
    /\ ot_calls[Len(ot_calls)] = Call("_variantB_parse_script_for_object", 0)
    /\ cmp_ret = CmpReturn("ONETRUST", "LIBRARY_ERROR", <<>>)

\* C36: execute_in_IFrames probes the top frame first, with the timeout of the
\* caller, and the iframes only when that found nothing, in document order and with
\* timeout 0; it returns the result of the first frame where the probe finds
\* something and probes no frame after it, returns none when no frame has anything,
\* and an iframe that turned stale does not end the scan.
C36_TopFrameThenEachIframe ==
    LET found == {j \in 1..Len(fr_iframes) : fr_iframes[j] = "found"}
        last == IF fr_ret.kind = "result" THEN fr_ret.frame
                ELSE IF fr_ret.kind = "none" THEN Len(fr_iframes)
                ELSE fr_i - 1
        switched == SelectSeq([j \in 1..Len(fr_iframes) |-> j],
                              LAMBDA j : j <= last /\ fr_iframes[j] # "stale_switch")
    IN  /\ fr_probes # <<>> =>
              /\ fr_probes[1] = Probe(0, fr_timeout)
              /\ Len(fr_probes) > 1 => ~fr_top
              /\ fr_top => fr_ret = [kind |-> "result", frame |-> 0]
              /\ ~fr_top => fr_probes = <<Probe(0, fr_timeout)>>
                                \o [k \in 1..Len(switched) |-> Probe(switched[k], 0)]
        /\ fr_ret.kind = "result" =>
              /\ fr_probes[Len(fr_probes)].frame = fr_ret.frame
              /\ fr_ret.frame # 0 =>
                    /\ fr_ret.frame \in found
                    /\ \A j \in found : fr_ret.frame <= j
        /\ fr_ret.kind = "none" => (~fr_top /\ found = {})
        /\ (fr_pc = "return" /\ ~fr_top /\ found # {}) => fr_ret.kind = "result"

\* C36 witness: the top frame had nothing, the first iframe turned stale while the
\* probe ran, the second when the driver switched to it, and the result of the third
\* was returned.
C36_Witness_ResultBehindStaleIframes ==
    /\ fr_pc = "return"
    /\ fr_iframes = <<"stale_command", "stale_switch", "found">>
    /\ fr_ret = [kind |-> "result", frame |-> 3]
    /\ Len(fr_probes) = 3

\* C37: when execute_in_IFrames has returned, with a result or with none, after the
\* driver went into an iframe, the driver is on the default content.
C37_FocusBackOnDefaultContent ==
    (/\ fr_pc = "return"
     /\ \E k \in 1..Len(fr_probes) : fr_probes[k].frame # 0)
        => focus = 0

\* C37 witness: the probe ran in two iframes and found nothing; execute_in_IFrames
\* returned none and the driver is on the default content.
C37_Witness_NoneAfterIframes ==
    /\ fr_pc = "return"
    /\ fr_ret.kind = "none"
    /\ fr_iframes = <<"empty", "stale_command">>
    /\ Len(fr_probes) = 3
    /\ focus = 0

C39_OutcomesInVisitOrder ==
    num_browsers > 1 =>
        /\ \A k \in 1..Len(retry) :
              /\ retry[k] < next_i
              /\ task[retry[k]] = "lost"
              /\ \A j \in 1..Len(retry) : j < k => retry[j] < retry[k]
        /\ \A v \in Visits :
              IF v < next_i
              THEN /\ task[v] \in {"done", "lost"}
                   /\ nresults[v] = (IF task[v] = "done" THEN 1 ELSE 0)
                   /\ task[v] = "lost" => \E k \in 1..Len(retry) : retry[k] = v
              ELSE nresults[v] = 0
        /\ watcher = "killed" => next_i = NumVisits + 1

\* C39 witness: a pool crawl in which an earlier visit timed out and was written to the
\* retry list, and the result of a later visit was merged afterwards.
C39_Witness_ResultAfterTimeout ==
    /\ num_browsers > 1
    /\ \E k \in 1..Len(retry) : \E w \in Visits :
          /\ retry[k] < w
          /\ task[retry[k]] = "lost"
          /\ nresults[w] = 1

\* C40: on the abort path of a visit (crawl_cmps returned with no CMP found, or with a
\* scrape state other than SUCCESS) the list of observed cookies handed back to the
\* orchestrator is empty, whatever collect_cookies found, and collect_cookies was
\* called on that path.
C40_AbortReturnsNoCookies ==
    (/\ cmp_pc = "visit_done"
     /\ cmp_ret.kind = "return"
     /\ cmp_ret.cmp_type = "FAILED" \/ cmp_ret.crawl_state # "SUCCESS")
        => /\ visit_ret.kind = "return"
           /\ visit_ret.cookies = <<>>
           /\ \E k \in 1..Len(steps) : steps[k] = Step("collect_cookies", RootUrl)

\* C40 witness: a visit aborted because no CMP was found; collect_cookies ran without
\* raising and the tuple of run_domain came back with an empty cookie list.
C40_Witness_AbortedWithoutCmp ==
    /\ cmp_pc = "visit_done"
    /\ cmp_ret.kind = "return"
    /\ cmp_ret.cmp_type = "FAILED"
    /\ visit_exc = "none"
    /\ steps[Len(steps)] = Step("collect_cookies", RootUrl)
    /\ visit_ret.cookies = <<>>

====
